---------------------------- MODULE Spec2Model ----------------------------
(***************************************************************************)
(* A model of the HURDAT2 ETL pipeline (snarkipus/hurdat2_etl_demo):       *)
(*   - the line parsers and the streaming extractor                         *)
(*     (src/src/hurdat2_etl/extract/parser.py, src/src/hurdat2_etl/models.py)*)
(*   - schema initialisation (load/load.py, load/schema.py,                 *)
(*     load/connection.py)                                                  *)
(*   - storm insertion (load/load.py, load/operations.py)                   *)
(*                                                                         *)
(* Text is modelled as sequences of one-character strings, so that the     *)
(* parsers are computed character by character as the Python code does.    *)
(***************************************************************************)
EXTENDS Integers, Sequences, FiniteSets, TLC

(***************************************************************************)
(* Python string primitives used by the parsers.                           *)
(***************************************************************************)

\* str.strip() with no argument strips these (the subset the inputs use).
PyWhitespace == {" ", "\t", "\n", "\r"}

Digits == {"0", "1", "2", "3", "4", "5", "6", "7", "8", "9"}

DigitVal(c) ==
    CASE c = "0" -> 0 [] c = "1" -> 1 [] c = "2" -> 2 [] c = "3" -> 3
      [] c = "4" -> 4 [] c = "5" -> 5 [] c = "6" -> 6 [] c = "7" -> 7
      [] c = "8" -> 8 [] c = "9" -> 9

\* s.rstrip(chars)
RStripChars(s, chars) ==
    LET keep == {i \in 1..Len(s) : s[i] \notin chars}
    IN  IF keep = {} THEN <<>>
        ELSE SubSeq(s, 1, CHOOSE i \in keep : \A j \in keep : j <= i)

\* s.lstrip(chars)
LStripChars(s, chars) ==
    LET keep == {i \in 1..Len(s) : s[i] \notin chars}
    IN  IF keep = {} THEN <<>>
        ELSE SubSeq(s, CHOOSE i \in keep : \A j \in keep : i <= j, Len(s))

\* s.strip()
Strip(s) == LStripChars(RStripChars(s, PyWhitespace), PyWhitespace)

\* s.split(sep): always at least one part
RECURSIVE Split(_, _)
Split(s, sep) ==
    LET hits == {i \in 1..Len(s) : s[i] = sep}
    IN  IF hits = {} THEN <<s>>
        ELSE LET i == CHOOSE i \in hits : \A j \in hits : i <= j
             IN  <<SubSeq(s, 1, i - 1)>> \o Split(SubSeq(s, i + 1, Len(s)), sep)

\* [part.strip() for part in parts]
StripAll(parts) == [i \in 1..Len(parts) |-> Strip(parts[i])]

\* s[a:b] with 0-based a, exclusive b, clipped like a Python slice
Slice(s, a, b) ==
    LET hi == IF b > Len(s) THEN Len(s) ELSE b
    IN  IF a >= hi THEN <<>> ELSE SubSeq(s, a + 1, hi)

\* The digits-and-underscores body of an int() literal: digits, with single
\* underscores allowed only between digits.
IsIntBody(b) ==
    /\ Len(b) > 0
    /\ \A i \in 1..Len(b) : b[i] \in Digits \cup {"_"}
    /\ b[1] # "_"
    /\ b[Len(b)] # "_"
    /\ \A i \in 1..(Len(b) - 1) : ~(b[i] = "_" /\ b[i + 1] = "_")

RECURSIVE DigitsValue(_)
DigitsValue(b) ==
    IF Len(b) = 0 THEN 0
    ELSE IF b[Len(b)] = "_" THEN DigitsValue(SubSeq(b, 1, Len(b) - 1))
    ELSE 10 * DigitsValue(SubSeq(b, 1, Len(b) - 1)) + DigitVal(b[Len(b)])

\* int(s): surrounding whitespace stripped, an optional sign, then the body.
\* [ok |-> FALSE] stands for ValueError.
PyInt(s) ==
    LET t    == Strip(s)
        sgn  == Len(t) > 0 /\ t[1] \in {"-", "+"}
        body == IF sgn THEN SubSeq(t, 2, Len(t)) ELSE t
    IN  IF ~IsIntBody(body) THEN [ok |-> FALSE, val |-> 0]
        ELSE [ok  |-> TRUE,
              val |-> IF sgn /\ t[1] = "-" THEN 0 - DigitsValue(body)
                      ELSE DigitsValue(body)]

(***************************************************************************)
(* parse_header (extract/parser.py)                                        *)
(***************************************************************************)

HEADER_FIELDS_CNT == 3
CYCLONE_ID_LENGTH == 8

\* The characters line.rstrip(",\n\r\t") removes: no space among them.
HeaderRStripSet == {",", "\n", "\r", "\t"}

HeaderFail(why) ==
    [ok |-> FALSE, why |-> why, basin |-> <<>>, number |-> 0, year |-> 0,
     name |-> <<>>, count |-> 0]

parse_header(line) ==
    IF Strip(line) = <<>> THEN HeaderFail("Empty header line")
    ELSE
      LET parts == StripAll(Split(RStripChars(line, HeaderRStripSet), ","))
      IN  IF Len(parts) # HEADER_FIELDS_CNT
            THEN HeaderFail("Expected 3 header parts")
          ELSE
            LET cyclone_id == parts[1]
                name       == parts[2]
                obs_count  == parts[3]
            IN  IF Len(cyclone_id) # CYCLONE_ID_LENGTH
                  THEN HeaderFail("Invalid cyclone ID format")
                ELSE
                  LET number == PyInt(Slice(cyclone_id, 2, 4))
                      year   == PyInt(Slice(cyclone_id, 4, Len(cyclone_id)))
                      cnt    == PyInt(obs_count)
                  IN  IF ~(number.ok /\ year.ok /\ cnt.ok)
                        THEN HeaderFail("Failed to parse numeric values in header")
                      ELSE [ok |-> TRUE, why |-> "",
                            basin  |-> Slice(cyclone_id, 0, 2),
                            number |-> number.val,
                            year   |-> year.val,
                            name   |-> name,
                            count  |-> cnt.val]

(***************************************************************************)
(* Storm (models.py): the validated header aggregate.                      *)
(***************************************************************************)

MAX_CYCLONES == 99
MIN_YEAR == 1800
MAX_YEAR == 2100

validate_cyclone_number(value) == 0 <= value /\ value <= MAX_CYCLONES

validate_year(value) == MIN_YEAR <= value /\ value <= MAX_YEAR

validate_basin(value) == value = <<"A", "L">>

\* Storm(basin=..., cyclone_number=..., year=..., name=..., observations=...):
\* TRUE when pydantic accepts the fields (name has min_length 1).
StormValid(basin, number, year, name) ==
    /\ validate_basin(basin)
    /\ validate_cyclone_number(number)
    /\ validate_year(year)
    /\ Len(name) >= 1

Storm(basin, number, year, name, observations) ==
    [basin |-> basin, cyclone_number |-> number, year |-> year,
     name |-> name, observations |-> observations]

(***************************************************************************)
(* Observation parsing (parser.py parse_observation, models.py)            *)
(***************************************************************************)

\* Optional values: None is the empty tuple, a present value v is <<v>>.
None == <<>>
Some(v) == <<v>>

\* StormStatus (extract/types.py): the enum's values, "XX" (UNKNOWN) among them.
StormStatusValues ==
    { <<"T","S">>, <<"H","U">>, <<"E","X">>, <<"L","O">>, <<"W","V">>,
      <<"D","B">>, <<"S","S">>, <<"S","D">>, <<"T","D">>, <<"X","X">> }

\* Observation.parse_storm_status: ValueError unless an enum value
parse_storm_status(value) == value \in StormStatusValues

\* Settings.MISSING_VALUES
MISSING_VALUES == {-999, -99}

\* Observation.parse_possible_missing on a string: int(value.strip()), then
\* the sentinels become None.
MissingOrValue(n) ==
    IF ~n.ok THEN [ok |-> FALSE, val |-> None]
    ELSE IF n.val \in MISSING_VALUES THEN [ok |-> TRUE, val |-> None]
    ELSE [ok |-> TRUE, val |-> Some(n.val)]

parse_possible_missing(value) == MissingOrValue(PyInt(Strip(value)))

AllDigits(s) == \A i \in 1..Len(s) : s[i] \in Digits

\* str.upper() on the letters the coordinate pattern reads
UpperChar(c) ==
    CASE c = "n" -> "N" [] c = "s" -> "S" [] c = "e" -> "E" [] c = "w" -> "W"
      [] OTHER -> c

Upper(s) == [i \in 1..Len(s) |-> UpperChar(s[i])]

\* Point.COORDINATE_PATTERN  (\d+\.?\d*)\s*([NSEW])$  matched from the start
\* of coord.strip().upper().  Degrees are kept in tenths of a degree; the
\* inputs carry at most one decimal digit.
CoordMatch(coord) ==
    LET s    == Upper(Strip(coord))
        n    == Len(s)
        body == IF n = 0 THEN <<>> ELSE RStripChars(SubSeq(s, 1, n - 1), PyWhitespace)
        dots == {i \in 1..Len(body) : body[i] = "."}
        ip   == IF dots = {} THEN body
                ELSE SubSeq(body, 1, (CHOOSE i \in dots : TRUE) - 1)
        fp   == IF dots = {} THEN <<>>
                ELSE SubSeq(body, (CHOOSE i \in dots : TRUE) + 1, Len(body))
        ok   == /\ n >= 2
                /\ s[n] \in {"N", "S", "E", "W"}
                /\ Cardinality(dots) <= 1
                /\ Len(ip) >= 1 /\ AllDigits(ip)
                /\ AllDigits(fp) /\ Len(fp) <= 1
    IN  IF ~ok THEN [ok |-> FALSE, degrees |-> 0, direction |-> ""]
        ELSE [ok |-> TRUE,
              degrees |-> 10 * DigitsValue(ip)
                          + (IF Len(fp) = 1 THEN DigitVal(fp[1]) ELSE 0),
              direction |-> s[n]]

\* Settings.MAX_LATITUDE / MAX_LONGITUDE, in degrees
MAX_LATITUDE == 90
MAX_LONGITUDE == 360

\* Point.parse_hurdat2 after the pattern matched (m): direction and range
\* checks, then the sign.  Values are in tenths of a degree.
SignedCoordinate(m, is_latitude) ==
    IF ~m.ok THEN [ok |-> FALSE, val |-> 0]
    ELSE IF is_latitude
      THEN IF m.direction \notin {"N", "S"} THEN [ok |-> FALSE, val |-> 0]
           ELSE IF ~(0 - 10 * MAX_LATITUDE <= m.degrees
                     /\ m.degrees <= 10 * MAX_LATITUDE)
             THEN [ok |-> FALSE, val |-> 0]
           ELSE [ok |-> TRUE,
                 val |-> IF m.direction = "S" THEN 0 - m.degrees ELSE m.degrees]
      ELSE IF m.direction \notin {"E", "W"} THEN [ok |-> FALSE, val |-> 0]
           ELSE IF ~(m.degrees >= 0 - 10 * MAX_LONGITUDE
                     /\ m.degrees <= 10 * MAX_LONGITUDE)
             THEN [ok |-> FALSE, val |-> 0]
           ELSE [ok |-> TRUE,
                 val |-> IF m.direction = "W" THEN 0 - m.degrees ELSE m.degrees]

\* Point.parse_hurdat2(coord, is_latitude)
Point_parse_hurdat2(coord, is_latitude) ==
    SignedCoordinate(CoordMatch(coord), is_latitude)

PointOf(la, lo) ==
    [ok |-> la.ok /\ lo.ok, latitude |-> la.val, longitude |-> lo.val]

\* Point(latitude=<str>, longitude=<str>): both validators run on strings
Point(lat, lon) ==
    PointOf(Point_parse_hurdat2(lat, TRUE), Point_parse_hurdat2(lon, FALSE))

\* A value handed to a Point field: a string [str |-> text] or a raw decimal
\* [num |-> tenths of a degree].  The "before" validators parse strings only;
\* any other value is returned as it is.
validate_latitude(value) ==
    IF "str" \in DOMAIN value THEN Point_parse_hurdat2(value.str, TRUE)
    ELSE [ok |-> TRUE, val |-> value.num]

validate_longitude(value) ==
    IF "str" \in DOMAIN value THEN Point_parse_hurdat2(value.str, FALSE)
    ELSE [ok |-> TRUE, val |-> value.num]

\* Point(latitude=..., longitude=...) on strings or raw decimals
PointFromValues(latitude, longitude) ==
    PointOf(validate_latitude(latitude), validate_longitude(longitude))

\* etl_script.Point: LAT_RANGE in degrees
LAT_RANGE == <<-90, 90>>

\* ((self.longitude + 180) % 360) - 180, in tenths of a degree
normalize_longitude(d) == ((d + 1800) % 3600) - 1800

\* etl_script.Point.__post_init__: the latitude check, then the longitude is
\* normalised in place
Point_post_init(latitude, longitude) ==
    IF ~(10 * LAT_RANGE[1] <= latitude /\ latitude <= 10 * LAT_RANGE[2])
      THEN [ok |-> FALSE, latitude |-> latitude, longitude |-> longitude]
      ELSE [ok |-> TRUE, latitude |-> latitude,
            longitude |-> normalize_longitude(longitude)]

\* The alternatives of _strptime's directive patterns, each tried on a whole
\* piece of the text:  %m  1[0-2]|0[1-9]|[1-9]
MatchMonth(t) ==
    \/ Len(t) = 2 /\ t[1] = "1" /\ t[2] \in {"0", "1", "2"}
    \/ Len(t) = 2 /\ t[1] = "0" /\ t[2] \in Digits \ {"0"}
    \/ Len(t) = 1 /\ t[1] \in Digits \ {"0"}

\* %d  3[0-1]|[1-2]\d|0[1-9]|[1-9]| [1-9]
MatchDay(t) ==
    \/ Len(t) = 2 /\ t[1] = "3" /\ t[2] \in {"0", "1"}
    \/ Len(t) = 2 /\ t[1] \in {"1", "2"} /\ t[2] \in Digits
    \/ Len(t) = 2 /\ t[1] \in {"0", " "} /\ t[2] \in Digits \ {"0"}
    \/ Len(t) = 1 /\ t[1] \in Digits \ {"0"}

\* %H  2[0-3]|[0-1]\d|\d
MatchHour(t) ==
    \/ Len(t) = 2 /\ t[1] = "2" /\ t[2] \in {"0", "1", "2", "3"}
    \/ Len(t) = 2 /\ t[1] \in {"0", "1"} /\ t[2] \in Digits
    \/ Len(t) = 1 /\ t[1] \in Digits

\* %M  [0-5]\d|\d
MatchMinute(t) ==
    \/ Len(t) = 2 /\ t[1] \in {"0", "1", "2", "3", "4", "5"} /\ t[2] \in Digits
    \/ Len(t) = 1 /\ t[1] \in Digits

DaysInMonth(y, m) ==
    IF m \in {4, 6, 9, 11} THEN 30
    ELSE IF m # 2 THEN 31
    ELSE IF (y % 4 = 0 /\ y % 100 # 0) \/ y % 400 = 0 THEN 29
    ELSE 28

\* datetime.strptime(f"{d},{t}", "%Y%m%d,%H%M"): the regex prefers the longer
\* month (hour) alternative and backtracks to the one-character one.
strptime(d, t) ==
    LET yy   == Slice(d, 0, 4)
        rest == Slice(d, 4, Len(d))
        ml   == IF Len(rest) >= 3 /\ MatchMonth(Slice(rest, 0, 2))
                   /\ MatchDay(Slice(rest, 2, Len(rest))) THEN 2
                ELSE IF Len(rest) >= 2 /\ MatchMonth(Slice(rest, 0, 1))
                   /\ MatchDay(Slice(rest, 1, Len(rest))) THEN 1
                ELSE 0
        hl   == IF Len(t) >= 3 /\ MatchHour(Slice(t, 0, 2))
                   /\ MatchMinute(Slice(t, 2, Len(t))) THEN 2
                ELSE IF Len(t) >= 2 /\ MatchHour(Slice(t, 0, 1))
                   /\ MatchMinute(Slice(t, 1, Len(t))) THEN 1
                ELSE 0
        bad  == [ok |-> FALSE, year |-> 0, month |-> 0, day |-> 0,
                 hour |-> 0, minute |-> 0]
    IN  IF ~(Len(yy) = 4 /\ AllDigits(yy) /\ ml > 0 /\ hl > 0) THEN bad
        ELSE LET y  == DigitsValue(yy)
                 m  == DigitsValue(Slice(rest, 0, ml))
                 dd == DigitsValue(Strip(Slice(rest, ml, Len(rest))))
             IN  IF y < 1 \/ dd > DaysInMonth(y, m) THEN bad
                 ELSE [ok |-> TRUE, year |-> y, month |-> m, day |-> dd,
                       hour |-> DigitsValue(Slice(t, 0, hl)),
                       minute |-> DigitsValue(Slice(t, hl, Len(t)))]

\* The 15 numeric fields, fields[6] .. fields[20] (0-based), in source order.
NumericNames ==
    << "max_wind", "min_pressure",
       "ne34", "se34", "sw34", "nw34",
       "ne50", "se50", "sw50", "nw50",
       "ne64", "se64", "sw64", "nw64",
       "max_wind_radius" >>

OBSERVATION_FIELDS_USED == 21

\* Field(ge=0) on an int | None
NonNegativeOrNoneUnchecked(v) == TRUE

NonNegativeOrNone(v) == v = None \/ v[1] >= 0

ObsFail(why) == [ok |-> FALSE, why |-> why, obs |-> <<>>]

\* fields[i] of the source (0-based) is FieldAt(fields, i + 1); a missing
\* field (IndexError in the source) reads as empty here and is caught by the
\* length checks of ObservationFrom.
FieldAt(fields, i) == IF i <= Len(fields) THEN fields[i] ELSE <<>>

\* The body of parse_observation's try block, in the source's order of
\* evaluation: date, record id, status, location, the 15 numeric fields,
\* then the Observation constructor (Field(ge=0)).
ObservationFrom(fields, date, loc, nums) ==
    IF Len(fields) < 2 THEN ObsFail("Missing required fields in observation")
    ELSE IF ~date.ok THEN ObsFail("Invalid observation format")
    ELSE IF Len(fields) < 4 THEN ObsFail("Missing required fields in observation")
    ELSE IF ~parse_storm_status(fields[4])
      THEN ObsFail("Invalid observation format")
    ELSE IF Len(fields) < 6 THEN ObsFail("Missing required fields in observation")
    ELSE IF ~loc.ok THEN ObsFail("Invalid observation format")
    ELSE IF \E i \in 1..15 : 6 + i <= Len(fields) /\ ~nums[i].ok
                             /\ \A j \in 1..(i - 1) : nums[j].ok
      THEN ObsFail("Invalid observation format")
    ELSE IF Len(fields) < OBSERVATION_FIELDS_USED
      THEN ObsFail("Missing required fields in observation")
    ELSE IF \E i \in 1..15 : ~NonNegativeOrNone(nums[i].val)
      THEN ObsFail("Invalid observation format")
    ELSE [ok |-> TRUE, why |-> "",
          obs |-> [date |-> date,
                   record_identifier |->
                       IF fields[3] = <<>> THEN None ELSE Some(fields[3]),
                   status |-> fields[4],
                   latitude |-> loc.latitude,
                   longitude |-> loc.longitude,
                   numeric |-> [i \in 1..15 |-> nums[i].val]]]

ObservationOfFields(fields) ==
    ObservationFrom(fields,
                    strptime(FieldAt(fields, 1), FieldAt(fields, 2)),
                    Point(FieldAt(fields, 5), FieldAt(fields, 6)),
                    [i \in 1..15 |-> parse_possible_missing(FieldAt(fields, 6 + i))])

\* parse_observation(line): [ok |-> TRUE, obs |-> the Observation], or the
\* ExtractionError's message in why.
parse_observation(line) ==
    IF Strip(line) = <<>> THEN ObsFail("Empty line found in data")
    ELSE ObservationOfFields(StripAll(Split(Strip(line), ",")))

(***************************************************************************)
(* The input files of the extractor: sequences of lines, each with its     *)
(* line break, drawn from a small alphabet of concrete lines.              *)
(***************************************************************************)

\* a header declaring 0 observations
H_ZERO ==
    <<"A","L","0","1","2","0","0","5",",","A","R","L","E","N","E",",","0",
      ",","\n">>

\* a header declaring 1 observation
H_ONE ==
    <<"A","L","0","2","2","0","0","5",",","B","R","E","T",",","1",",","\n">>

\* a header declaring 2 observations, padded as in the real files
H_TWO ==
    <<"A","L","0","3","2","0","0","5",","," "," "," ","C","I","N","D","Y",
      ","," "," ","2",",","\n">>

\* a header whose count field is a negative integer
H_NEG ==
    <<"A","L","0","4","2","0","0","5",",","D","E","N","N","I","S",",","-",
      "1",",","\n">>

\* a header parse_header accepts and Storm rejects (basin)
H_BASIN ==
    <<"E","P","0","5","2","0","0","5",",","E","M","I","L","Y",",","1",",",
      "\n">>

\* a well-formed observation
O_A ==
    <<"2","0","0","5","0","8","2","9",",","1","2","0","0",",","L",",","H",
      "U",",","2","9",".","1","N",",","9","0",".","2","W",",","1","3","0",
      ",","9","3","1",",","0",",","0",",","0",",","0",",","0",",","0",",",
      "0",",","0",",","0",",","0",",","0",",","0",",","-","9","9","9","\n">>

\* another well-formed observation
O_B ==
    <<"2","0","0","5","0","8","3","0",",","0","0","0","0",",",",","T","S",
      ",","1","0",".","0","N",",","3","5",".","9","W",",","3","5",",","-",
      "9","9",",","4","0",",","3","0",",","0",",","4","0",",","0",",","0",
      ",","0",",","0",",","0",",","0",",","0",",","0",",","1","5","\n">>

\* 21 fields with an unknown status: no header, no observation
O_BAD ==
    <<"2","0","0","5","0","8","3","0",",","0","6","0","0",",",",","Z","Z",
      ",","1","0",".","0","N",",","3","5",".","9","W",",","3","5",",","1",
      "0","0","5",",","0",",","0",",","0",",","0",",","0",",","0",",","0",
      ",","0",",","0",",","0",",","0",",","0",",","0","\n">>

\* a blank line
BLANK ==
    <<"\n">>

FileLines == {H_ZERO, H_ONE, H_TWO, H_NEG, H_BASIN, O_A, O_B, O_BAD, BLANK}

\* The longest input file, in lines.
MaxLines == 4

Files == UNION {[1..n -> FileLines] : n \in 0..MaxLines}

(***************************************************************************)
(* State.                                                                  *)
(***************************************************************************)

VARIABLES
    \* parse_hurdat2, a generator over one input file
    file,          \* the file's lines
    exists,        \* whether open(filepath) finds the file
    pc,            \* where the generator stands
    line_num,      \* its line_num counter
    fpos,          \* lines consumed from the file (readline at the end gives "")
    header,        \* the tuple parse_header returned for the current block
    observations,  \* the observations list of the current block
    yielded,       \* the Storms yielded so far, in order
    error,         \* the ExtractionError that ended the generator, if any
    \* bookkeeping about the run, not program state
    hdr_line,      \* the line number of the current block's header
    yield_log,     \* per yielded Storm: declared count, header line, lines read
    \* one call of a pure function
    fn, arg, ret,
    \* the database behind one connection, and one insert_storms call
    store,         \* the database as the connection sees it
    committed,     \* the database as committed: what is visible afterward
    in_txn,        \* whether the connection has a transaction open
    ld_api,        \* "Load" or "DatabaseOperations"
    ld_storms,     \* the storms argument
    ld_batch_size, \* the batch size in force
    ld_pc,         \* where the call stands
    ld_i,          \* index of the storm being processed
    ld_off,        \* observations of that storm already handed to executemany
    ld_storm_id,   \* last_insert_rowid() of that storm's row, 0 before it
    ld_error,      \* the exception that left the call, if any
    ld_batches,    \* bookkeeping: the executemany calls issued, in order
    ld_progress_enabled,  \* Load(progress_enabled=...)
    ld_bar,        \* the stage's progress bar (ETLStage._progress_bar)
    \* the file system at the database path, and one schema initialisation
    fs_path,       \* the inode the target path names, 0 when no file is there
    inodes,        \* the database each inode holds, by inode number
    pool,          \* DatabaseManager.connection_pool: the inode of each
                   \* pooled connection
    conn,          \* the inode of the connection in use, 0 when none
    faults,        \* how the storage answers the coming statements
    sm_api,        \* "Load" or "SchemaManager"
    sm_lent,       \* the connections of the SchemaManager's pool that other
                   \* callers of its manager hold: the inode of each
    sm_pc,         \* where the initialisation stands
    sm_attempts,   \* attempts of the retry loop entered so far
    sm_error,      \* the exception that left the initialisation, if any
    sm_runs,       \* initialisations that returned
    sm_stmt,       \* statements of the current helper already executed
    sm_main,       \* the pool's database without its write-ahead log
    \* Transform.process, a generator over the Storms it is given
    tr_data,       \* the Storms the input iterator holds
    tr_progress_enabled,  \* Transform(progress_enabled=...)
    tr_fail_at,    \* the update of the progress bar that raises, 0 for none
    tr_pc,         \* where the generator stands
    tr_storms,     \* storms = list(data)
    tr_i,          \* index of the storm of the for loop
    tr_yielded,    \* the Storms yielded so far, in order
    tr_log,        \* the logger.info records of transform_data, in order
    tr_error,      \* the exception that ended the generator, if any
    tr_bar,        \* the stage's progress bar (ETLStage._progress_bar)
    \* one DatabaseManager and the callers of its pool
    dm_pool_size,  \* DatabaseManager(db_path, pool_size)
    dm_pool,       \* connection_pool: the queued connections, oldest first
    dm_held,       \* the connections callers obtained and have not returned
    dm_closed,     \* the connections close_all closed
    dm_last,       \* the last call, what it met and its outcome
    dm_calls,      \* calls made so far
    dm_waiting,    \* callers of get_connection waiting in Queue.get
    dm_closer,     \* where the callers of close_all stand
    \* one run of the pipeline Extract, Transform, Load (main.py run_etl)
    ex_progress_enabled,  \* Extract(progress_enabled=...)
    ex_bar,        \* the Extract stage's progress bar
    ex_pc,         \* where Extract.process stands
    ex_seen,       \* Storms of the parser that Extract.process has passed on
    lp_pc,         \* where Load.process stands
    lp_error,      \* the exception that left Load.process, if any
    pl_env,        \* bookkeeping: the run's inputs and the environment's answers
    pl_run,        \* bookkeeping: 1 for the first run on the inputs, 2 for
                   \* the second
    pl_first       \* bookkeeping: what the first run produced

extractVars == <<file, exists, pc, line_num, fpos, header, observations,
                 yielded, error, hdr_line, yield_log>>
callVars == <<fn, arg, ret>>
loadVars == <<store, committed, in_txn, ld_api, ld_storms, ld_batch_size,
              ld_pc, ld_i, ld_off, ld_storm_id, ld_error, ld_batches,
              ld_progress_enabled, ld_bar>>

schemaVars == <<fs_path, inodes, pool, conn, faults, sm_api, sm_lent, sm_pc,
                sm_attempts, sm_error, sm_runs, sm_stmt, sm_main>>

transformVars == <<tr_data, tr_progress_enabled, tr_fail_at, tr_pc, tr_storms,
                   tr_i, tr_yielded, tr_log, tr_error, tr_bar>>

poolVars == <<dm_pool_size, dm_pool, dm_held, dm_closed, dm_last, dm_calls,
              dm_waiting, dm_closer>>

pipelineVars == <<ex_progress_enabled, ex_bar, ex_pc, ex_seen, lp_pc, lp_error,
                  pl_env, pl_run, pl_first>>

\* what each part of the program leaves alone
nonExtractVars == <<callVars, loadVars, schemaVars, transformVars, poolVars,
                     pipelineVars>>
nonCallVars == <<extractVars, loadVars, schemaVars, transformVars, poolVars,
                  pipelineVars>>
nonLoadVars == <<extractVars, callVars, schemaVars, transformVars, poolVars,
                  pipelineVars>>
nonSchemaVars == <<extractVars, callVars, loadVars, transformVars, poolVars,
                    pipelineVars>>
nonTransformVars == <<extractVars, callVars, loadVars, schemaVars, poolVars,
                       pipelineVars>>

nonPoolVars == <<extractVars, callVars, loadVars, schemaVars, transformVars,
                  pipelineVars>>

nonPipelineVars == <<extractVars, callVars, loadVars, schemaVars, transformVars,
                      poolVars>>

vars == <<extractVars, callVars, loadVars, schemaVars, transformVars, poolVars,
           pipelineVars>>

(***************************************************************************)
(* parse_hurdat2 (extract/parser.py lines 206-247)                         *)
(***************************************************************************)

NoError == [at |-> "none", line_num |-> 0, text |-> <<>>]

(***************************************************************************)
(* ETLStage progress tracking (core.py lines 28-85).  A stage's bar is     *)
(* recorded with the calls made on it: how often tqdm(...) was called for  *)
(* the stage, the total it was given, the sum of the update(n) calls,      *)
(* how often close() was called, and whether self._progress_bar holds it.  *)
(***************************************************************************)

\* a stage after ETLStage.__init__: self._progress_bar = None
NoBar == [created |-> 0, total |-> 0, n |-> 0, closed |-> 0, held |-> FALSE]

\* init_progress(total, desc) with total = len(...) >= 0: tqdm(total=total,
\* desc=desc) when progress is enabled
init_progress(bar, progress_enabled, total) ==
    IF progress_enabled
      THEN [created |-> bar.created + 1, total |-> total, n |-> 0,
            closed |-> bar.closed, held |-> TRUE]
      ELSE bar

\* "if self._progress_bar:" (lines 62 and 76): None is falsy, and the truth
\* value of a tqdm bar that was given a total is total > 0 (tqdm.__bool__)
progress_bar_truthy(bar) == bar.held /\ bar.total > 0

\* update_progress(n)
update_progress(bar, n) ==
    IF progress_bar_truthy(bar) THEN [bar EXCEPT !.n = @ + n] ELSE bar

\* close_progress(): close() and self._progress_bar = None, under the same
\* test
close_progress(bar) ==
    IF progress_bar_truthy(bar)
      THEN [bar EXCEPT !.closed = @ + 1, !.held = FALSE]
      ELSE bar

\* The ExtractionError leaving parse_hurdat2.  Its message is
\*   "Failed to parse HURDAT2 file: Failed to parse <at> at line <line_num>:
\*    <text>\nError: ..."
\* for a line a parser rejected; the other failures name no line
\* (line_num 0, empty text).
LineError(at, n, line) == [at |-> at, line_num |-> n, text |-> Strip(line)]

OtherError(at) == [at |-> at, line_num |-> 0, text |-> <<>>]

NoHeader == HeaderFail("")

ExtractIdle ==
    /\ file = <<>> /\ exists = TRUE /\ pc = "idle" /\ line_num = 0 /\ fpos = 0
    /\ header = NoHeader /\ observations = <<>> /\ yielded = <<>>
    /\ error = NoError /\ hdr_line = 0 /\ yield_log = <<>>

CallIdle == fn = "none" /\ arg = <<>> /\ ret = <<>>

EmptyStore ==
    [storms |-> <<>>, observations |-> <<>>, storm_seq |-> 0, obs_seq |-> 0]

\* an exception: its class, the message of the innermost cause its message
\* carries, the storm being processed (0 for none) and the storm name its
\* message carries (empty for none)
NoException == [class |-> "none", cause |-> "none", storm |-> 0, names |-> <<>>]

LoadIdle ==
    /\ store = EmptyStore /\ committed = EmptyStore /\ in_txn = FALSE
    /\ ld_api = "none" /\ ld_storms = <<>> /\ ld_batch_size = 0
    /\ ld_pc = "idle" /\ ld_i = 0 /\ ld_off = 0 /\ ld_storm_id = 0
    /\ ld_error = NoException /\ ld_batches = <<>>
    /\ ld_progress_enabled = FALSE /\ ld_bar = NoBar

\* A database file just created by apsw.Connection(path)
EmptyDatabase ==
    [spatial |-> FALSE, tables |-> FALSE, geom_trigger |-> FALSE,
     validate_trigger |-> FALSE, indices |-> FALSE, rows |-> 0]

NoFault == [class |-> "none", fault |-> "none"]

SchemaIdle ==
    /\ fs_path = 0 /\ inodes = <<>> /\ pool = <<>> /\ conn = 0
    /\ faults = <<>> /\ sm_api = "none" /\ sm_pc = "idle" /\ sm_attempts = 0
    /\ sm_lent = <<>>
    /\ sm_error = NoFault /\ sm_runs = 0 /\ sm_stmt = 0
    /\ sm_main = EmptyDatabase

TransformIdle ==
    /\ tr_data = <<>> /\ tr_progress_enabled = FALSE /\ tr_fail_at = 0
    /\ tr_pc = "idle" /\ tr_storms = <<>> /\ tr_i = 0 /\ tr_yielded = <<>>
    /\ tr_log = <<>> /\ tr_error = "none" /\ tr_bar = NoBar

NoCall ==
    [op |-> "none", available |-> 0, handed_out |-> 0, raised |-> FALSE]

\* no caller is inside close_all
NoCloser == [test |-> 0, get |-> 0, close |-> {}]

PoolIdle ==
    /\ dm_pool_size = 0
    /\ dm_pool = <<>>
    /\ dm_held = {}
    /\ dm_closed = {}
    /\ dm_last = NoCall
    /\ dm_calls = 0
    /\ dm_waiting = 0
    /\ dm_closer = NoCloser

PipelineIdle ==
    /\ ex_progress_enabled = FALSE
    /\ ex_bar = NoBar
    /\ ex_pc = "idle"
    /\ ex_seen = 0
    /\ lp_pc = "idle"
    /\ lp_error = "none"
    /\ pl_env = <<>>
    /\ pl_run = 0
    /\ pl_first = <<>>

InitExtract ==
    /\ PipelineIdle
    /\ PoolIdle
    /\ \/ exists = TRUE /\ file \in Files
       \/ exists = FALSE /\ file = <<>>
    /\ pc = "read_header" /\ line_num = 0 /\ fpos = 0
    /\ header = NoHeader /\ observations = <<>> /\ yielded = <<>>
    /\ error = NoError /\ hdr_line = 0 /\ yield_log = <<>>
    /\ CallIdle
    /\ LoadIdle
    /\ SchemaIdle
    /\ TransformIdle

\* f.readline(): the next line, or "" at the end of the file
readline == IF fpos < Len(file) THEN file[fpos + 1] ELSE <<>>

Fail(e) ==
    /\ pc' = "failed"
    /\ error' = e

\* Variant with an off-by-one loop bound (range(num_observations - 1) for a
\* count of 1): the block properties must tell it from the real loop.
AfterHeaderOffByOne(count) == IF count > 1 THEN "read_obs" ELSE "yield"

\* After the header: the for loop runs range(num_observations) times.
AfterHeader(count) == IF count > 0 THEN "read_obs" ELSE "yield"

\* Variant that skips a header line parse_header rejects and goes on with
\* the next line instead of raising.
HeaderReadSkipsRejected(line, h) ==
    /\ line_num' = line_num + 1
    /\ fpos' = fpos + 1
    /\ IF ~h.ok
         THEN /\ pc' = "read_header"
              /\ UNCHANGED <<error, header, observations, hdr_line>>
         ELSE /\ header' = h
              /\ observations' = <<>>
              /\ hdr_line' = line_num + 1
              /\ pc' = AfterHeader(h.count)
              /\ UNCHANGED error

\* Lines 214-223: the header line just read, and what parse_header made of it.
HeaderRead(line, h) ==
    /\ line_num' = line_num + 1
    /\ fpos' = fpos + 1
    /\ IF ~h.ok
         THEN /\ Fail(LineError("header", line_num + 1, line))
              /\ UNCHANGED <<header, observations, hdr_line>>
         ELSE /\ header' = h
              /\ observations' = <<>>
              /\ hdr_line' = line_num + 1
              /\ pc' = AfterHeader(h.count)
              /\ UNCHANGED error

\* Lines 207-223: open the file (first entry), read a header line, parse it.
ReadHeader ==
    /\ pc = "read_header"
    /\ IF ~exists
         THEN /\ Fail(OtherError("file_not_found"))
              /\ UNCHANGED <<line_num, fpos, header, observations, hdr_line>>
       ELSE IF readline = <<>>
         THEN /\ pc' = "done"
              /\ UNCHANGED <<error, line_num, fpos, header, observations,
                             hdr_line>>
       ELSE HeaderRead(readline, parse_header(readline))
    /\ UNCHANGED <<file, exists, yielded, yield_log, nonExtractVars>>

\* Lines 225-234: the observation line just read, and what parse_observation
\* made of it.
ObservationRead(line, o) ==
    /\ line_num' = line_num + 1
    /\ fpos' = IF fpos < Len(file) THEN fpos + 1 ELSE fpos
    /\ IF ~o.ok
         THEN /\ Fail(LineError("observation", line_num + 1, line))
              /\ UNCHANGED observations
         ELSE /\ observations' = Append(observations, o.obs)
              /\ pc' = IF Len(observations) + 1 >= header.count
                         THEN "yield" ELSE "read_obs"
              /\ UNCHANGED error

\* Lines 224-234: one iteration of the observation loop.
ReadObservation ==
    /\ pc = "read_obs"
    /\ ObservationRead(readline, parse_observation(readline))
    /\ UNCHANGED <<file, exists, header, yielded, hdr_line, yield_log, nonExtractVars>>

\* Lines 236-247: build the Storm and yield it; a Storm that fails pydantic
\* validation is caught by the outer handler, whose message names no line.
YieldStorm ==
    /\ pc = "yield"
    /\ IF StormValid(header.basin, header.number, header.year, header.name)
         THEN /\ yielded' = Append(yielded,
                     Storm(header.basin, header.number, header.year,
                           header.name, observations))
              /\ yield_log' = Append(yield_log,
                     [declared |-> header.count, hdr_line |-> hdr_line,
                      lines_read |-> fpos])
              /\ pc' = "read_header"
              /\ UNCHANGED error
         ELSE /\ Fail(OtherError("storm_validation"))
              /\ UNCHANGED <<yielded, yield_log>>
    /\ UNCHANGED <<file, exists, line_num, fpos, header, observations,
                   hdr_line, nonExtractVars>>

NextExtract == ReadHeader \/ ReadObservation \/ YieldStorm

SpecExtract == InitExtract /\ [][NextExtract]_vars

(***************************************************************************)
(* Properties of the extractor.  The vocabulary of the claims ("well-formed *)
(* header declaring N", "well-formed observation line") is fixed here by   *)
(* tables over the concrete lines, independently of the parsers.           *)
(***************************************************************************)

HeaderLines == {H_ZERO, H_ONE, H_TWO, H_NEG, H_BASIN}

WellFormedHeaders == {H_ZERO, H_ONE, H_TWO}

WellFormedObservations == {O_A, O_B}

\* The count a header line's third field declares
DeclaredCount(l) ==
    CASE l = H_ZERO -> 0 [] l = H_ONE -> 1 [] l = H_TWO -> 2
      [] l = H_NEG -> -1 [] l = H_BASIN -> 1

\* The cyclone number in a well-formed header's id
CycloneNumberOf(l) == CASE l = H_ZERO -> 1 [] l = H_ONE -> 2 [] l = H_TWO -> 3

\* The max-wind field of a well-formed observation line
MaxWindOf(l) == CASE l = O_A -> 130 [] l = O_B -> 35

\* A file made of header blocks only: [ok, blocks], each block with its
\* header's cyclone number and the max winds of its observation lines.
RECURSIVE BlockParse(_)
BlockParse(f) ==
    IF f = <<>> THEN [ok |-> TRUE, blocks |-> <<>>]
    ELSE IF f[1] \notin WellFormedHeaders THEN [ok |-> FALSE, blocks |-> <<>>]
    ELSE IF \/ Len(f) < 1 + DeclaredCount(f[1])
            \/ \E j \in 2..(1 + DeclaredCount(f[1])) :
                   f[j] \notin WellFormedObservations
      THEN [ok |-> FALSE, blocks |-> <<>>]
    ELSE [ok |-> BlockParse(SubSeq(f, DeclaredCount(f[1]) + 2, Len(f))).ok,
          blocks |->
            << [number |-> CycloneNumberOf(f[1]),
                winds  |-> [j \in 1..DeclaredCount(f[1]) |-> MaxWindOf(f[j + 1])]] >>
            \o BlockParse(SubSeq(f, DeclaredCount(f[1]) + 2, Len(f))).blocks]

StormsMatch(storms, blocks) ==
    /\ Len(storms) = Len(blocks)
    /\ \A i \in 1..Len(blocks) :
          /\ storms[i].cyclone_number = blocks[i].number
          /\ Len(storms[i].observations) = Len(blocks[i].winds)
          /\ \A j \in 1..Len(blocks[i].winds) :
                storms[i].observations[j].numeric[1] = Some(blocks[i].winds[j])

\* C1: a file of k well-formed header blocks (header declaring N_i >= 0, then
\* exactly N_i well-formed observation lines) never fails, and once the
\* generator is exhausted it has yielded exactly k Storms in file order, the
\* i-th with exactly N_i observations in file order; the empty file yields
\* the empty sequence.
C1_BlocksYieldStorms ==
    (exists /\ BlockParse(file).ok) =>
        /\ pc # "failed"
        /\ pc = "done" => StormsMatch(yielded, BlockParse(file).blocks)

C1_Witness ==
    /\ pc = "done" /\ exists /\ BlockParse(file).ok
    /\ Len(yielded) = 2
    /\ Len(yielded[1].observations) = 2
    /\ Len(yielded[2].observations) = 0

\* The lines after position i up to the next header line or the end of input
FollowCount(f, i) ==
    Cardinality({j \in (i + 1)..Len(f) :
                    \A m \in (i + 1)..j : f[m] \notin HeaderLines})

\* Some header declares N >= 0 and is not followed by exactly N lines before
\* the next header or the end of input.
CountMismatch(f) ==
    \E i \in 1..Len(f) :
        /\ f[i] \in HeaderLines
        /\ DeclaredCount(f[i]) >= 0
        /\ FollowCount(f, i) # DeclaredCount(f[i])

\* C2 (as claimed): when a header declaring N >= 0 is not followed by exactly
\* N observation lines the run ends with ExtractionError, never normally; and
\* no Storm is ever yielded whose number of observations differs from the
\* count its header declared.
C2_CountMismatchIsFatal ==
    /\ (exists /\ CountMismatch(file)) => pc # "done"
    /\ \A i \in 1..Len(yielded) :
          Len(yielded[i].observations) = yield_log[i].declared

\* The line whose rejection ended the run: the line just read for a parser
\* failure, the block's header line for a Storm validation failure.
RejectedLine == IF error.at = "storm_validation" THEN hdr_line ELSE line_num

\* C5 (as claimed): whenever the run fails because the line at position k is
\* rejected (header parser, observation parser, or Storm validation of the
\* header's fields), the ExtractionError names line k and that line's text.
C5_ErrorNamesRejectedLine ==
    (pc = "failed" /\ exists /\ RejectedLine <= Len(file)) =>
        /\ error.line_num = RejectedLine
        /\ error.text = Strip(file[RejectedLine])

Max0(n) == IF n > 0 THEN n ELSE 0

LastYieldEnd ==
    IF yield_log = <<>> THEN 0 ELSE yield_log[Len(yield_log)].lines_read

\* C6: each Storm is yielded when exactly the lines of its block have been
\* read (the blocks tile the file from line 1, none skipped), the next
\* block's header is read only after that yield, and a run that failed at
\* line k has yielded exactly the blocks that end before k: the failing
\* block starts right after the last yielded one.
C6_LazyYieldNoSkip ==
    /\ Len(yielded) = Len(yield_log)
    /\ \A i \in 1..Len(yield_log) :
          /\ yield_log[i].hdr_line =
                 (IF i = 1 THEN 1 ELSE yield_log[i - 1].lines_read + 1)
          /\ yield_log[i].lines_read =
                 yield_log[i].hdr_line + Max0(yield_log[i].declared)
    /\ pc \in {"read_obs", "yield"} =>
          /\ hdr_line = LastYieldEnd + 1
          /\ line_num = hdr_line + Len(observations)
    /\ pc = "read_header" => line_num = LastYieldEnd
    /\ (pc = "failed" /\ exists) =>
          /\ LastYieldEnd < RejectedLine
          /\ error.at = "header" => line_num = LastYieldEnd + 1
          /\ error.at # "header" =>
                /\ hdr_line = LastYieldEnd + 1
                /\ line_num = hdr_line + Len(observations)
                              + (IF error.at = "observation" THEN 1 ELSE 0)
    /\ pc = "done" => LastYieldEnd = Len(file)

C6_Witness ==
    /\ pc = "failed" /\ error.at = "observation"
    /\ Len(yielded) = 1 /\ Len(yielded[1].observations) = 1
    /\ line_num = 4

\* C10 (as claimed): no Storm is ever produced for a header whose count field
\* is a negative integer.
C10_NegativeCountRejected ==
    \A i \in 1..Len(yield_log) : yield_log[i].declared >= 0

(***************************************************************************)
(* parse_header as a pure function: one call on a line built from a        *)
(* cyclone id, a name, a count, an optional fourth field and a trailer.    *)
(***************************************************************************)

\* cyclone id fields: good, too short, non-numeric number, signed number,
\* padded, and one whose cyclone number has a leading zero
HeaderIds ==
    { <<"A", "L", "1", "2", "2", "0", "0", "7">>,
      <<"A", "L", "X", "X", "X", "X">>,
      <<"A", "L", "1", "X", "2", "0", "0", "7">>,
      <<"A", "L", "-", "1", "2", "0", "0", "7">>,
      <<" ", "A", "L", "1", "2", "2", "0", "0", "7">>,
      <<"A", "L", "0", "1", "2", "0", "2", "3">> }

\* name fields
HeaderNames ==
    { <<"K", "A", "R", "E", "N">>,
      <<>>,
      <<" ", " ", "K", "A", "R", "E", "N", " ">> }

\* count fields: good, negative, non-numeric, padded, empty
HeaderCounts ==
    { <<"1", "9">>,
      <<"-", "1">>,
      <<"X", "X">>,
      <<" ", " ", "1", "9">>,
      <<>> }

\* nothing, or a fourth field
HeaderExtras ==
    { <<>>,
      <<",", "E", "X", "T", "R", "A">> }

\* what ends the line: commas, blanks, tabs and line breaks
HeaderTrailers ==
    { <<>>,
      <<",">>,
      <<",", ",">>,
      <<",", " ">>,
      <<",", "\n">>,
      <<",", "\r", "\n">>,
      <<" ", ",">>,
      <<",", "\t">>,
      <<" ">> }

HeaderInputs ==
    { id \o <<",">> \o nm \o <<",">> \o cnt \o ex \o tr :
        id \in HeaderIds, nm \in HeaderNames, cnt \in HeaderCounts,
        ex \in HeaderExtras, tr \in HeaderTrailers }
    \cup { id \o <<",">> \o nm \o tr :
             id \in HeaderIds, nm \in HeaderNames, tr \in HeaderTrailers }
    \cup { tr : tr \in HeaderTrailers }

InitHeader ==
    /\ PipelineIdle
    /\ PoolIdle
    /\ ExtractIdle
    /\ LoadIdle
    /\ SchemaIdle
    /\ TransformIdle
    /\ fn = "parse_header"
    /\ arg \in HeaderInputs
    /\ ret = <<>>

\* parse_header(arg) returns, or raises ExtractionError (ret.ok = FALSE)
CallParseHeader ==
    /\ fn = "parse_header"
    /\ ret' = parse_header(arg)
    /\ fn' = "parse_header returned"
    /\ UNCHANGED <<arg, nonCallVars>>

\* The header contract as the claim words it: strip trailing commas and
\* whitespace, split on commas, exactly 3 (trimmed) fields, an 8-character
\* id whose characters 3-4 and 5-8 are integers, an integer count.
ClaimedHeaderParts(line) ==
    StripAll(Split(RStripChars(line, {","} \cup PyWhitespace), ","))

ClaimedHeaderAccepts(parts) ==
    /\ Len(parts) = 3
    /\ Len(parts[1]) = 8
    /\ PyInt(Slice(parts[1], 2, 4)).ok
    /\ PyInt(Slice(parts[1], 4, 8)).ok
    /\ PyInt(parts[3]).ok

ClaimedHeaderResult(parts) ==
    [ok |-> TRUE, why |-> "",
     basin  |-> Slice(parts[1], 0, 2),
     number |-> PyInt(Slice(parts[1], 2, 4)).val,
     year   |-> PyInt(Slice(parts[1], 4, 8)).val,
     name   |-> parts[2],
     count  |-> PyInt(parts[3]).val]

\* C9 (as claimed): parse_header succeeds exactly on the lines the contract
\* accepts, returning (first 2 characters, number, year, trimmed name,
\* count), and raises ExtractionError on every other line.
C9_HeaderAcceptedExactly ==
    fn = "parse_header returned" =>
        /\ ret.ok <=> ClaimedHeaderAccepts(ClaimedHeaderParts(arg))
        /\ ret.ok => ret = ClaimedHeaderResult(ClaimedHeaderParts(arg))

(***************************************************************************)
(* The store: SQLite behind one APSW connection.  APSW opens no            *)
(* transaction of its own: outside BEGIN ... COMMIT every statement, and   *)
(* every row of an executemany, commits by itself.  A CHECK or UNIQUE      *)
(* violation aborts the statement and leaves an open transaction open; a   *)
(* trigger's RAISE(ROLLBACK) rolls the open transaction back and closes    *)
(* it.  Coordinates are in tenths of a degree.                             *)
(***************************************************************************)

\* CONSTRAINT valid_basin CHECK (basin IN ('AL', 'EP', 'CP'))
DbBasins == { <<"A","L">>, <<"E","P">>, <<"C","P">> }

\* CONSTRAINT valid_year CHECK (year >= 1851)
DB_MIN_YEAR == 1851

\* the statuses the observations_validate trigger lets through
DbStatusValues ==
    { <<"T","D">>, <<"T","S">>, <<"H","U">>, <<"E","X">>, <<"S","D">>,
      <<"S","S">>, <<"L","O">>, <<"W","V">>, <<"D","B">> }

\* the bounds of the observations_geom_validate trigger, in tenths
DB_MAX_X == 1800
DB_MAX_Y == 900

\* INSERT INTO storms: the CHECK constraints and UNIQUE(basin, cyclone_number,
\* year) of CREATE TABLE storms
StormConstraintViolated(st, s) ==
    \/ s.basin \notin DbBasins
    \/ ~(s.cyclone_number > 0)
    \/ ~(s.year >= DB_MIN_YEAR)
    \/ \E i \in 1..Len(st.storms) :
          /\ st.storms[i].basin = s.basin
          /\ st.storms[i].cyclone_number = s.cyclone_number
          /\ st.storms[i].year = s.year

\* the row INSERT INTO storms adds (id INTEGER PRIMARY KEY AUTOINCREMENT)
InsertStormRow(st, s) ==
    [st EXCEPT !.storms = Append(@, [id |-> st.storm_seq + 1,
                                     basin |-> s.basin,
                                     cyclone_number |-> s.cyclone_number,
                                     year |-> s.year,
                                     name |-> s.name]),
               !.storm_seq = @ + 1]

\* NEW.col < 0 AND NEW.col NOT IN (-999, -99); a NULL column never fires
NegativeNotMissing(v) == v # None /\ v[1] < 0 /\ v[1] \notin {-999, -99}

TriggerRejectsGeometryOnly(o) ==
    \/ o.longitude < -DB_MAX_X \/ o.longitude > DB_MAX_X
    \/ o.latitude < -DB_MAX_Y \/ o.latitude > DB_MAX_Y

\* BEFORE INSERT ON observations: observations_geom_validate and
\* observations_validate; either raises RAISE(ROLLBACK, ...)
TriggerRejects(o) ==
    \/ o.longitude < -DB_MAX_X \/ o.longitude > DB_MAX_X
    \/ o.latitude < -DB_MAX_Y \/ o.latitude > DB_MAX_Y
    \/ o.status \notin DbStatusValues
    \/ NegativeNotMissing(o.numeric[1])
    \/ NegativeNotMissing(o.numeric[2])

\* index of the first row of the batch a trigger rejects, 0 if none
FirstRejected(batch) ==
    IF \E i \in 1..Len(batch) : TriggerRejects(batch[i])
      THEN CHOOSE i \in 1..Len(batch) :
              /\ TriggerRejects(batch[i])
              /\ \A j \in 1..(i - 1) : ~TriggerRejects(batch[j])
      ELSE 0

InsertObservationRowsSentinelsAsNull(st, storm_id, batch, n) ==
    [st EXCEPT !.observations =
                   @ \o [i \in 1..n |->
                           [id |-> st.obs_seq + i,
                            storm_id |-> storm_id,
                            date |-> batch[i].date,
                            record_identifier |-> batch[i].record_identifier,
                            status |-> batch[i].status,
                            numeric |-> [k \in 1..15 |->
                                IF batch[i].numeric[k] # None
                                     /\ batch[i].numeric[k][1] \in {-999, -99}
                                  THEN None ELSE batch[i].numeric[k]],
                            x |-> batch[i].longitude,
                            y |-> batch[i].latitude]],
               !.obs_seq = @ + n]

\* the rows INSERT INTO observations adds for the first n entries of a batch;
\* geom is ST_PointFromText('POINT(longitude latitude)', 4326)
InsertObservationRows(st, storm_id, batch, n) ==
    [st EXCEPT !.observations =
                   @ \o [i \in 1..n |->
                           [id |-> st.obs_seq + i,
                            storm_id |-> storm_id,
                            date |-> batch[i].date,
                            record_identifier |-> batch[i].record_identifier,
                            status |-> batch[i].status,
                            numeric |-> batch[i].numeric,
                            x |-> batch[i].longitude,
                            y |-> batch[i].latitude]],
               !.obs_seq = @ + n]

\* cur.executemany(INSERT INTO observations ..., values): the rows go in one
\* statement each, up to the first one a trigger rejects (r, 0 if none).
\* Inside a transaction the rejection rolls everything back to cm; outside,
\* the rows before r are already committed.
ExecuteMany(st, cm, txn, storm_id, batch, r) ==
    IF r = 0
      THEN [ok |-> TRUE, in_txn |-> txn,
            store |-> InsertObservationRows(st, storm_id, batch, Len(batch))]
    ELSE IF txn
      THEN [ok |-> FALSE, in_txn |-> FALSE, store |-> cm]
    ELSE [ok |-> FALSE, in_txn |-> FALSE,
          store |-> InsertObservationRows(st, storm_id, batch, r - 1)]

(***************************************************************************)
(* Load.insert_storms (load/load.py) and DatabaseOperations.insert_storms  *)
(* (load/operations.py) on a freshly initialised store.                    *)
(***************************************************************************)

\* An Observation as the extractor builds it, here with every wind radius
\* missing.
ObservationWith(status, latitude, longitude, max_wind) ==
    [date |-> [ok |-> TRUE, year |-> 2005, month |-> 8, day |-> 29,
               hour |-> 12, minute |-> 0],
     record_identifier |-> None,
     status |-> status,
     latitude |-> latitude,
     longitude |-> longitude,
     numeric |-> [i \in 1..15 |-> IF i = 1 THEN Some(max_wind) ELSE None]]

OB_HU == ObservationWith(<<"H","U">>, 291, -902, 130)
OB_TS == ObservationWith(<<"T","S">>, 100, -359, 35)
\* status "XX" is a member of StormStatus
OB_XX == ObservationWith(<<"X","X">>, 250, -800, 20)
\* "200.0W" passes Point.parse_hurdat2 (MAX_LONGITUDE is 360)
OB_FAR == ObservationWith(<<"T","D">>, 150, -2000, 25)

ST_ARLENE == Storm(<<"A","L">>, 1, 2005, <<"A","R","L","E","N","E">>,
                   <<OB_HU, OB_TS>>)
ST_BRET   == Storm(<<"A","L">>, 2, 2005, <<"B","R","E","T">>, <<>>)
ST_CINDY  == Storm(<<"A","L">>, 3, 2005, <<"C","I","N","D","Y">>,
                   <<OB_HU, OB_XX, OB_TS>>)
ST_DENNIS == Storm(<<"A","L">>, 4, 2005, <<"D","E","N","N","I","S">>,
                   <<OB_TS, OB_HU, OB_FAR>>)
\* a year the Storm model accepts and the table's CHECK does not
ST_OLD    == Storm(<<"A","L">>, 5, 1800, <<"O","L","D">>, <<OB_HU>>)
\* cyclone number 0: accepted by the Storm model, falsy in all([...])
ST_ZERO   == Storm(<<"A","L">>, 0, 2005, <<"Z","E","R","O">>, <<OB_TS>>)

\* Observations whose fields were assigned after construction (the model
\* validates on construction only): sentinels kept as literals, a negative
\* pressure, and a location built from raw decimals, Point(latitude=91.0,
\* longitude=0.0)
OB_MISSING == [OB_TS EXCEPT !.numeric[1] = Some(-999), !.numeric[2] = Some(-99)]
OB_NULL == [OB_HU EXCEPT !.numeric[1] = None]
OB_NEG == [OB_TS EXCEPT !.numeric[2] = Some(-5)]
OB_POLAR == [OB_TS EXCEPT !.latitude = 910, !.longitude = 0]

ST_FRANKLIN == Storm(<<"A","L">>, 6, 2005, <<"F","R","A","N","K","L","I","N">>,
                     <<OB_POLAR>>)
ST_GERT   == Storm(<<"A","L">>, 7, 2005, <<"G","E","R","T">>, <<OB_HU, OB_NEG>>)
\* three admissible observations: with a batch size of 2 the last batch is
\* shorter than the others
ST_HARVEY == Storm(<<"A","L">>, 8, 2005, <<"H","A","R","V","E","Y">>,
                   <<OB_HU, OB_TS, OB_NULL>>)
\* a Storm whose basin was assigned after construction
ST_EMILY  == [Storm(<<"A","L">>, 5, 2005, <<"E","M","I","L","Y">>,
                    <<OB_MISSING, OB_NULL>>) EXCEPT !.basin = <<"E","P">>]

\* The Storm objects handed to insert_storms: all but ST_EMILY pass the Storm
\* model.
LoadStorms ==
    { st \in {ST_ARLENE, ST_BRET, ST_CINDY, ST_DENNIS, ST_OLD, ST_ZERO,
              ST_FRANKLIN, ST_GERT, ST_HARVEY} :
        StormValid(st.basin, st.cyclone_number, st.year, st.name) }
        \cup {ST_EMILY}

MaxStorms == 2
MaxBatchSize == 2

StormLists == UNION {[1..n -> LoadStorms] : n \in 0..MaxStorms}

InitLoad ==
    /\ PipelineIdle
    /\ PoolIdle
    /\ ExtractIdle
    /\ CallIdle
    /\ SchemaIdle
    /\ TransformIdle
    /\ store = EmptyStore /\ committed = EmptyStore /\ in_txn = FALSE
    /\ ld_storms \in StormLists
    /\ ld_batch_size \in 0..MaxBatchSize
    /\ \/ /\ ld_api = "Load" /\ ld_pc = "construct"
          /\ ld_progress_enabled \in BOOLEAN
       \/ /\ ld_api = "DatabaseOperations" /\ ld_pc = "called"
          /\ ld_progress_enabled = FALSE
    /\ ld_i = 0 /\ ld_off = 0 /\ ld_storm_id = 0
    /\ ld_error = NoException /\ ld_batches = <<>>
    /\ ld_bar = NoBar

\* Load(db_path, batch_size) (load.py lines 50-62): a batch size that is
\* not positive is refused by the constructor, before insert_storms can be
\* called.  DatabaseOperations takes the batch size with the call.
LoadInit ==
    /\ ld_api = "Load" /\ ld_pc = "construct"
    /\ IF ld_batch_size <= 0
         THEN /\ ld_pc' = "raised"
              /\ ld_error' = [class |-> "ValueError",
                              cause |-> "Batch size must be positive",
                              storm |-> 0, names |-> <<>>]
         ELSE /\ ld_pc' = "called"
              /\ UNCHANGED ld_error
    /\ UNCHANGED <<store, committed, in_txn, ld_api, ld_storms, ld_batch_size,
                   ld_progress_enabled, ld_i, ld_off, ld_storm_id,
                   ld_batches, ld_bar, nonLoadVars>>

\* Before the try block: the argument checks (operations.py lines 42-46,
\* load.py lines 203-204), then the connection; DatabaseOperations opens a
\* transaction (line 53), Load does not and calls init_progress (line 213).
InsertStormsBegin ==
    /\ ld_pc = "called"
    /\ IF ld_storms = <<>>
         THEN /\ ld_pc' = "raised"
              /\ ld_error' = [class |-> "ValueError",
                              cause |-> "No storm data provided for insertion",
                              storm |-> 0, names |-> <<>>]
              /\ UNCHANGED <<in_txn, ld_i, ld_bar>>
       ELSE IF ld_api = "DatabaseOperations" /\ ld_batch_size <= 0
         THEN /\ ld_pc' = "raised"
              /\ ld_error' = [class |-> "ValueError",
                              cause |-> "Batch size must be positive",
                              storm |-> 0, names |-> <<>>]
              /\ UNCHANGED <<in_txn, ld_i, ld_bar>>
         ELSE /\ in_txn' = (ld_api = "DatabaseOperations")
              /\ ld_pc' = "storm"
              /\ ld_i' = 1
              /\ ld_bar' = IF ld_api = "Load"
                             THEN init_progress(ld_bar, ld_progress_enabled,
                                                Len(ld_storms))
                             ELSE ld_bar
              /\ UNCHANGED ld_error
    /\ UNCHANGED <<store, committed, ld_api, ld_storms, ld_batch_size,
                   ld_progress_enabled, ld_off, ld_storm_id, ld_batches,
                   nonLoadVars>>

\* An exception raised while storm ld_i is processed, on its way out.  st and
\* txn are the store and the transaction flag the failing statement left.
\* Every handler wraps it in DatabaseInsertionError.  Load (lines 301-308)
\* executes ROLLBACK and ignores "no transaction is active";
\* DatabaseOperations (line 61) executes ROLLBACK unguarded, so after a
\* trigger has closed the transaction the SQLError of the ROLLBACK replaces
\* the cause.  The finally clause closes the connection, in Load after
\* close_progress (line 310).
RaiseFromStorm(st, txn, cause) ==
    /\ ld_pc' = "raised"
    /\ ld_bar' = close_progress(ld_bar)
    /\ in_txn' = FALSE
    /\ store' = IF txn THEN committed ELSE st
    /\ committed' = IF txn THEN committed ELSE st
    /\ ld_error' =
          [class |-> "DatabaseInsertionError",
           cause |-> IF ~txn /\ ld_api = "DatabaseOperations"
                       THEN "cannot rollback - no transaction is active"
                       ELSE cause,
           storm |-> ld_i,
           names |-> IF ~txn /\ ld_api = "DatabaseOperations"
                       THEN <<>>
                       ELSE ld_storms[ld_i].name]

\* all([storm.basin, storm.cyclone_number, storm.year, storm.name])
AllTruthy(s) ==
    s.basin # <<>> /\ s.cyclone_number # 0 /\ s.year # 0 /\ s.name # <<>>

\* where the loops go once storm ld_i is finished; Load calls
\* update_progress (line 289)
StormDone ==
    /\ ld_off' = 0
    /\ ld_bar' = update_progress(ld_bar, 1)
    /\ IF ld_i < Len(ld_storms)
         THEN ld_pc' = "storm" /\ ld_i' = ld_i + 1
         ELSE ld_pc' = "commit" /\ UNCHANGED ld_i

\* a statement that succeeded and left the store as st
Executed(st) ==
    /\ store' = st
    /\ committed' = IF in_txn THEN committed ELSE st
    /\ UNCHANGED <<in_txn, ld_error>>

\* The storm's validity check and its INSERT INTO storms (load.py lines
\* 219-233, operations.py _insert_storm).
InsertStorm ==
    /\ ld_pc = "storm"
    /\ IF ~AllTruthy(ld_storms[ld_i])
         THEN /\ RaiseFromStorm(store, in_txn, "Invalid storm data")
              /\ UNCHANGED <<ld_i, ld_off, ld_storm_id>>
       ELSE IF StormConstraintViolated(store, ld_storms[ld_i])
         THEN /\ RaiseFromStorm(store, in_txn, "constraint failed")
              /\ UNCHANGED <<ld_i, ld_off, ld_storm_id>>
         ELSE /\ Executed(InsertStormRow(store, ld_storms[ld_i]))
              /\ ld_storm_id' = store.storm_seq + 1
              /\ IF ld_storms[ld_i].observations = <<>>
                   THEN StormDone
                   ELSE /\ ld_pc' = "batch" /\ ld_off' = 0
                        /\ UNCHANGED <<ld_i, ld_bar>>
    /\ UNCHANGED <<ld_api, ld_storms, ld_batch_size,
                   ld_progress_enabled, ld_batches, nonLoadVars>>

\* Variant whose slice runs one element too far (obs[i : i + batch_size + 1]):
\* the batch properties must tell it from the real slice.
BatchOneTooFar(obs, i, batch_size) ==
    SubSeq(obs, i + 1,
           IF i + batch_size + 1 < Len(obs) THEN i + batch_size + 1
           ELSE Len(obs))

\* storm.observations[i : i + batch_size]
Batch(obs, i, batch_size) ==
    SubSeq(obs, i + 1,
           IF i + batch_size < Len(obs) THEN i + batch_size ELSE Len(obs))

\* what follows the executemany of one batch
BatchExecuted(res, n) ==
    IF res.ok
      THEN /\ Executed(res.store)
           /\ IF ld_off + n >= Len(ld_storms[ld_i].observations)
                THEN StormDone
                ELSE ld_off' = ld_off + n /\ UNCHANGED <<ld_pc, ld_i, ld_bar>>
      ELSE /\ RaiseFromStorm(res.store, res.in_txn, "trigger rejected a row")
           /\ UNCHANGED <<ld_i, ld_off>>

ExecuteBatch(batch) ==
    BatchExecuted(ExecuteMany(store, committed, in_txn, ld_storm_id, batch,
                              FirstRejected(batch)),
                  Len(batch))

\* One iteration of the batch loop (load.py lines 236-287, operations.py
\* _process_observations).
ProcessObservations ==
    /\ ld_pc = "batch"
    /\ ExecuteBatch(Batch(ld_storms[ld_i].observations, ld_off, ld_batch_size))
    /\ ld_batches' = Append(ld_batches,
          [storm |-> ld_i, storm_id |-> ld_storm_id, off |-> ld_off,
           rows |-> Batch(ld_storms[ld_i].observations, ld_off, ld_batch_size),
           last_storm_row |-> IF store.storms = <<>> THEN 0
                              ELSE store.storms[Len(store.storms)].id])
    /\ UNCHANGED <<ld_api, ld_storms, ld_batch_size,
                   ld_progress_enabled, ld_storm_id,
                   nonLoadVars>>

\* After the last storm: DatabaseOperations executes COMMIT (line 55); Load
\* has nothing to commit.  The finally clause closes the connection, in
\* Load after close_progress.
InsertStormsReturn ==
    /\ ld_pc = "commit"
    /\ ld_pc' = "returned"
    /\ committed' = store
    /\ in_txn' = FALSE
    /\ ld_bar' = close_progress(ld_bar)
    /\ UNCHANGED <<store, ld_api, ld_storms, ld_batch_size,
                   ld_progress_enabled, ld_i, ld_off,
                   ld_storm_id, ld_error, ld_batches, nonLoadVars>>

\* the ids of the storms rows of a basin
BasinStormIds(st, basin) ==
    { st.storms[i].id : i \in {k \in 1..Len(st.storms) : st.storms[k].basin = basin} }

BasinYears(st, basin) ==
    { st.storms[i].year : i \in {k \in 1..Len(st.storms) : st.storms[k].basin = basin} }

\* SELECT COUNT(*) FROM observations WHERE storm_id = storms.id, summed over
\* the storms rows with the given ids
RECURSIVE SumObservationCounts(_, _)
SumObservationCounts(st, ids) ==
    IF ids = {} THEN 0
    ELSE LET sid == CHOOSE x \in ids : TRUE
         IN  Cardinality({j \in 1..Len(st.observations) :
                             st.observations[j].storm_id = sid})
             + SumObservationCounts(st, ids \ {sid})

\* One row of the basin coverage query (GROUP BY basin).  AVG is the sum of
\* the per-storm counts over the number of storms, kept as that fraction.
BasinStatsRow(st, basin) ==
    [basin |-> basin,
     storm_count |-> Cardinality(BasinStormIds(st, basin)),
     first_year |-> CHOOSE y \in BasinYears(st, basin) :
                        \A z \in BasinYears(st, basin) : y <= z,
     last_year |-> CHOOSE y \in BasinYears(st, basin) :
                        \A z \in BasinYears(st, basin) : y >= z,
     active_years |-> Cardinality(BasinYears(st, basin)),
     avg_observations_per_storm |->
         [sum |-> SumObservationCounts(st, BasinStormIds(st, basin)),
          count |-> Cardinality(BasinStormIds(st, basin))]]

BasinStatsRows(st) ==
    { BasinStatsRow(st, st.storms[i].basin) : i \in 1..Len(st.storms) }

\* the row sequences ORDER BY storm_count DESC may return
BasinStats(rows) ==
    { q \in [1..Cardinality(rows) -> rows] :
        /\ \A i, j \in 1..Cardinality(rows) : i # j => q[i] # q[j]
        /\ \A i, j \in 1..Cardinality(rows) :
              i < j => q[i].storm_count >= q[j].storm_count }

\* Variant whose error path discards the rows of the load (a ROLLBACK-like
\* cleanup): the frame property of validate_database must tell it from the
\* real method.
ValidateDatabaseDiscardsRows ==
    /\ ld_pc \in {"returned", "raised"}
    /\ fn = "none"
    /\ \/ /\ fn' = "validate_database returned"
          /\ \E q \in BasinStats(BasinStatsRows(committed)) :
                ret' = [basin_stats |-> q]
          /\ UNCHANGED <<store, committed>>
       \/ /\ fn' = "validate_database raised"
          /\ ret' = [class |-> "DatabaseValidationError"]
          /\ store' = EmptyStore /\ committed' = EmptyStore
    /\ UNCHANGED <<arg, in_txn, ld_api, ld_storms, ld_batch_size,
                   ld_progress_enabled, ld_pc, ld_i,
                   ld_off, ld_storm_id, ld_error, ld_batches, ld_bar,
                   extractVars,
                   schemaVars,
                   transformVars, poolVars, pipelineVars>>

\* Load.validate_database() after the insert_storms call (load.py lines
\* 317-444), on a connection of its own (it sees what is committed).  Every
\* statement it executes is a SELECT.  It returns its analyses, of which the
\* basin coverage analysis is kept here, or a query fails and the handlers
\* of lines 437 and 443 raise DatabaseValidationError; neither handler
\* executes a statement.
ValidateDatabase ==
    /\ ld_pc \in {"returned", "raised"}
    /\ fn = "none"
    /\ \/ /\ fn' = "validate_database returned"
          /\ \E q \in BasinStats(BasinStatsRows(committed)) :
                ret' = [basin_stats |-> q]
       \/ /\ fn' = "validate_database raised"
          /\ ret' = [class |-> "DatabaseValidationError"]
    /\ UNCHANGED <<arg, nonCallVars>>

NextLoad ==
    LoadInit \/ InsertStormsBegin \/ InsertStorm \/ ProcessObservations
        \/ InsertStormsReturn \/ ValidateDatabase

SpecLoad == InitLoad /\ [][NextLoad]_vars

\* The id of the row the failing storm's INSERT INTO storms added: the
\* failure came after that INSERT exactly when a batch was rejected.
FailedStormRowId ==
    IF ld_error.cause = "trigger rejected a row" THEN ld_storm_id ELSE 0

\* C3 (as claimed): when Load.insert_storms has raised
\* DatabaseInsertionError while processing a storm, the store holds neither
\* that storm's header row nor any observation row of it (so no batch of it
\* is left partly inserted).
C3_FailedStormNotVisible ==
    (ld_api = "Load" /\ ld_pc = "raised"
        /\ ld_error.class = "DatabaseInsertionError") =>
        /\ \A i \in 1..Len(committed.storms) :
              committed.storms[i].id # FailedStormRowId
        /\ \A i \in 1..Len(committed.observations) :
              committed.observations[i].storm_id # FailedStormRowId

\* the observation rows of the storm with row id sid, in insertion order
ObservationsOf(st, sid) ==
    SelectSeq(st.observations, LAMBDA row : row.storm_id = sid)

\* C4 (as claimed): insert_storms is all-or-nothing.  If it fails on the
\* j-th storm, no row of the storms 1..j-1 (which took the row ids 1..j-1) and
\* none of their observations is visible afterward; if it returns normally,
\* every storm of the list and every observation of it is visible.
C4_InsertStormsAllOrNothing ==
    /\ (ld_pc = "raised" /\ ld_error.class = "DatabaseInsertionError") =>
          /\ \A i \in 1..Len(committed.storms) :
                committed.storms[i].id >= ld_error.storm
          /\ \A i \in 1..Len(committed.observations) :
                committed.observations[i].storm_id >= ld_error.storm
    /\ ld_pc = "returned" =>
          /\ Len(committed.storms) = Len(ld_storms)
          /\ \A k \in 1..Len(ld_storms) :
                /\ committed.storms[k].id = k
                /\ committed.storms[k].name = ld_storms[k].name
                /\ Len(ObservationsOf(committed, k))
                       = Len(ld_storms[k].observations)
                /\ \A m \in 1..Len(ld_storms[k].observations) :
                      ObservationsOf(committed, k)[m].status
                          = ld_storms[k].observations[m].status

(***************************************************************************)
(* Schema initialisation: SchemaManager (load/schema.py) and               *)
(* Load.init_database (load/load.py) over a POSIX file system, where       *)
(* os.remove unlinks the path and open connections keep the old inode.     *)
(***************************************************************************)

\* Settings.DB_POOL_SIZE
DB_POOL_SIZE == 5

\* retries = 3 in initialize_database
retries == 3

\* A database with the complete schema and no rows
FreshSchema ==
    [spatial |-> TRUE, tables |-> TRUE, geom_trigger |-> TRUE,
     validate_trigger |-> TRUE, indices |-> TRUE, rows |-> 0]

\* A database an earlier load left behind: the schema and one storm row
PriorDatabase == [FreshSchema EXCEPT !.rows = 1]

MaxFaults == 3
MaxRuns == 2

\* The statements of one initialisation, in the order of their execution.
\* Each is executed by itself and, no transaction being open, committed by
\* itself.  schema.py: lines 103, 118-164, 180-203, 219-238, 254-261.
\* load.py: line 76, the eight statements of the one execute of lines
\* 80-127, lines 130-154, 156-176 and 178.
BaseTableStatements(api) ==
    <<"DROP TABLE observations", "DROP TABLE storms", "CREATE TABLE storms",
      "CREATE TABLE observations">>
    \o (IF api = "Load"
          THEN <<"CREATE INDEX", "CREATE INDEX", "CREATE INDEX",
                 "CREATE INDEX">>
          ELSE <<>>)

SpatialSupportStatements ==
    <<"AddGeometryColumn", "CREATE TRIGGER observations_geom_validate">>

IndexStatements(api) ==
    (IF api = "Load"
       THEN <<>>
       ELSE <<"CREATE INDEX", "CREATE INDEX", "CREATE INDEX",
              "CREATE INDEX">>)
    \o <<"CreateSpatialIndex">>

InitializationStatements(api) ==
    <<"InitSpatialMetadata">> \o BaseTableStatements(api)
        \o SpatialSupportStatements
        \o <<"CREATE TRIGGER observations_validate">>
        \o IndexStatements(api)

\* How the storage answers the coming statements, one entry per statement;
\* statements after the last entry succeed.  A plan lets some statements
\* succeed and then gives up to MaxFaults answers of any kind, so that the
\* first failure can meet any statement of an initialisation.
FaultPlans ==
    { [i \in 1..(k + Len(t)) |-> IF i <= k THEN "ok" ELSE t[i - k]] :
        k \in 0..(Len(InitializationStatements("Load")) - 1),
        t \in UNION {[1..n -> {"ok", "io", "other"}] : n \in 0..MaxFaults} }

InitSchema ==
    /\ PipelineIdle
    /\ PoolIdle
    /\ ExtractIdle
    /\ CallIdle
    /\ LoadIdle
    /\ TransformIdle
    /\ \/ fs_path = 0 /\ inodes = <<>>
       \/ fs_path = 1 /\ inodes = <<PriorDatabase>>
    /\ pool = <<>> /\ conn = 0
    /\ faults \in FaultPlans
    /\ \/ sm_api = "SchemaManager" /\ sm_pc = "construct"
       \/ sm_api = "Load" /\ sm_pc = "remove"
    /\ sm_lent = <<>>
    /\ sm_attempts = 0 /\ sm_error = NoFault /\ sm_runs = 0 /\ sm_stmt = 0
    /\ sm_main = EmptyDatabase

\* DatabaseManager(db_path): DB_POOL_SIZE connections to the file the path
\* names now; apsw.Connection creates the file when the path names none.
\* The connections set journal_mode = WAL (connection.py lines 78-79,
\* Settings.DB_PRAGMA_SETTINGS): what they write from now on stands in the
\* write-ahead log, a file named after the path, until the last of them is
\* closed; sm_main is the database without that log.
PoolOpened(taken) ==
    /\ pool' = [i \in 1..(DB_POOL_SIZE - taken) |->
                   IF fs_path = 0 THEN Len(inodes) + 1 ELSE fs_path]
    /\ sm_main' = IF fs_path = 0 THEN EmptyDatabase ELSE inodes[fs_path]
    /\ IF fs_path = 0
         THEN /\ inodes' = Append(inodes, EmptyDatabase)
              /\ fs_path' = Len(inodes) + 1
         ELSE UNCHANGED <<inodes, fs_path>>

\* SchemaManager.__init__: opens the pool
SchemaManagerInit ==
    /\ sm_api = "SchemaManager" /\ sm_pc = "construct"
    /\ PoolOpened(0)
    /\ sm_pc' = "remove"
    /\ UNCHANGED <<conn, faults, sm_api, sm_lent, sm_attempts, sm_error, sm_runs,
                   sm_stmt, nonSchemaVars>>

\* if os.path.exists(self.db_path): os.remove(self.db_path)
\* (load.py lines 66-68, schema.py lines 45-47).  Both stand before the try
\* block of their method: when the operating system refuses the removal
\* (the directory is not writable, the path names a directory) the OSError
\* of os.remove leaves the method as it is, and the file stays.
RemoveExisting ==
    /\ sm_pc = "remove"
    /\ \/ /\ fs_path' = 0
          /\ sm_pc' = IF sm_api = "Load" THEN "open" ELSE "get_connection"
          /\ UNCHANGED sm_error
       \/ /\ fs_path # 0
          /\ sm_pc' = "raised"
          /\ sm_error' = [class |-> "OSError", fault |-> "remove"]
          /\ UNCHANGED fs_path
    /\ UNCHANGED <<inodes, pool, conn, faults, sm_api, sm_lent, sm_attempts, sm_runs,
                   sm_stmt, sm_main, nonSchemaVars>>

\* Load.init_database lines 71-72: DatabaseManager(self.db_path), then
\* manager.get_connection(), which takes one of the DB_POOL_SIZE
\* connections off the queue.  The manager is a local of the method: no
\* other caller can hold a connection of it.
LoadOpen ==
    /\ sm_api = "Load" /\ sm_pc = "open"
    /\ PoolOpened(1)
    /\ conn' = IF fs_path = 0 THEN Len(inodes) + 1 ELSE fs_path
    /\ sm_attempts' = 1
    /\ sm_pc' = "spatial_metadata"
    /\ UNCHANGED <<faults, sm_api, sm_lent, sm_error, sm_runs, sm_stmt,
                   nonSchemaVars>>

\* The handlers of the retry loop (schema.py lines 72-85), reached by an
\* exception of the given class that left the inner try statement; kind is
\* the storage failure behind it.  Load.init_database has no retry loop and
\* wraps (load.py lines 196-199).
AttemptFailed(class, kind) ==
    IF sm_api = "SchemaManager" /\ class = "IOError" /\ sm_attempts < retries
      THEN /\ sm_pc' = "get_connection"
           /\ sm_error' = NoFault
      ELSE /\ sm_pc' = "raised"
           /\ sm_error' = [class |-> "DatabaseInitializationError",
                           fault |-> kind]

\* Another caller of the SchemaManager's manager (the public attribute
\* manager) takes a connection off the queue (get_connection, connection.py
\* lines 97-100), at any moment after the manager was built.
OtherGetConnection ==
    /\ sm_api = "SchemaManager" /\ sm_pc # "construct"
    /\ pool # <<>>
    /\ sm_lent' = Append(sm_lent, Head(pool))
    /\ pool' = Tail(pool)
    /\ UNCHANGED <<fs_path, inodes, conn, faults, sm_api, sm_pc, sm_attempts,
                   sm_error, sm_runs, sm_stmt, sm_main, nonSchemaVars>>

\* That caller returns a connection (return_connection, line 118), at any
\* moment.
OtherReturnConnection ==
    /\ sm_api = "SchemaManager"
    /\ sm_lent # <<>>
    /\ pool' = Append(pool, Head(sm_lent))
    /\ sm_lent' = Tail(sm_lent)
    /\ UNCHANGED <<fs_path, inodes, conn, faults, sm_api, sm_pc, sm_attempts,
                   sm_error, sm_runs, sm_stmt, sm_main, nonSchemaVars>>

\* self.manager.get_connection() at the head of an attempt (schema.py line
\* 52): connection_pool.get(timeout=...) takes the oldest queued connection,
\* or waits on an empty queue.
GetConnection ==
    /\ sm_api = "SchemaManager" /\ sm_pc = "get_connection"
    /\ sm_attempts' = sm_attempts + 1
    /\ IF pool = <<>>
         THEN /\ sm_pc' = "waiting"
              /\ UNCHANGED <<pool, conn>>
         ELSE /\ conn' = Head(pool)
              /\ pool' = Tail(pool)
              /\ sm_pc' = "spatial_metadata"
    /\ UNCHANGED <<fs_path, inodes, faults, sm_api, sm_lent, sm_error, sm_runs,
                   sm_stmt, sm_main, nonSchemaVars>>

\* the wait ends with a connection that was returned meanwhile
GetConnectionWakes ==
    /\ sm_pc = "waiting"
    /\ pool # <<>>
    /\ conn' = Head(pool)
    /\ pool' = Tail(pool)
    /\ sm_pc' = "spatial_metadata"
    /\ UNCHANGED <<fs_path, inodes, faults, sm_api, sm_lent, sm_attempts,
                   sm_error, sm_runs, sm_stmt, sm_main, nonSchemaVars>>

\* The wait ends with the timeout on a queue still empty: queue.Empty is
\* raised as DatabaseConnectionError (connection.py lines 101-105), which
\* the handler of schema.py line 82 wraps; the inner try was not entered, so
\* no finally clause runs.
GetConnectionTimesOut ==
    /\ sm_pc = "waiting"
    /\ pool = <<>>
    /\ AttemptFailed("DatabaseConnectionError", "other")
    /\ UNCHANGED <<fs_path, inodes, pool, conn, faults, sm_api, sm_lent,
                   sm_attempts, sm_runs, sm_stmt, sm_main, nonSchemaVars>>

\* the database after one statement
Execute(db, statement) ==
    CASE statement = "InitSpatialMetadata" -> [db EXCEPT !.spatial = TRUE]
      [] statement = "DROP TABLE observations" ->
            [db EXCEPT !.tables = FALSE, !.geom_trigger = FALSE,
                       !.validate_trigger = FALSE, !.indices = FALSE]
      [] statement = "DROP TABLE storms" ->
            [db EXCEPT !.tables = FALSE, !.indices = FALSE, !.rows = 0]
      [] statement = "CREATE TABLE observations" -> [db EXCEPT !.tables = TRUE]
      [] statement = "CREATE TRIGGER observations_geom_validate" ->
            [db EXCEPT !.geom_trigger = TRUE]
      [] statement = "CREATE TRIGGER observations_validate" ->
            [db EXCEPT !.validate_trigger = TRUE]
      [] statement = "CreateSpatialIndex" -> [db EXCEPT !.indices = TRUE]
      [] OTHER -> db

\* the database after the first n of the statements
RECURSIVE ExecuteAll(_, _, _)
ExecuteAll(db, statements, n) ==
    IF n = 0 THEN db
    ELSE Execute(ExecuteAll(db, statements, n - 1), statements[n])

\* the first of the coming n statements that the storage fails, 0 if none
FirstFault(n) ==
    IF \E i \in 1..n : i <= Len(faults) /\ faults[i] # "ok"
      THEN CHOOSE i \in 1..n :
              /\ i <= Len(faults) /\ faults[i] # "ok"
              /\ \A j \in 1..(i - 1) : faults[j] = "ok"
      ELSE 0

\* One call of execute in a helper of the schema: the next per_call of the
\* helper's statements run in order on the connection's file, up to the
\* first one the storage fails; what the statements before it did stays.
\* After the helper's last statement the initialisation moves to next_pc.
\* On a failure the helper wraps the exception, whatever its class, in
\* DatabaseInitializationError (schema.py lines 104, 165, 204, 239, 262;
\* load.py lines 186-191, where ROLLBACK finds no transaction), and the
\* exception, kept in sm_error, leaves the inner try through its finally
\* clause.
Statements(statements, per_call, next_pc) ==
    LET f == FirstFault(per_call)
        call == SubSeq(statements, sm_stmt + 1, sm_stmt + per_call)
    IN  /\ faults' = SubSeq(faults, (IF f = 0 THEN per_call ELSE f) + 1,
                            Len(faults))
        /\ inodes' = [inodes EXCEPT ![conn] =
                         ExecuteAll(@, call,
                                    IF f = 0 THEN per_call ELSE f - 1)]
        /\ IF f # 0
             THEN /\ sm_pc' = "return_connection"
                  /\ sm_stmt' = 0
                  /\ sm_error' = [class |-> "DatabaseInitializationError",
                                  fault |-> faults[f]]
           ELSE IF sm_stmt + per_call = Len(statements)
             THEN /\ sm_pc' = next_pc
                  /\ sm_stmt' = 0
                  /\ UNCHANGED sm_error
             ELSE /\ sm_stmt' = sm_stmt + per_call
                  /\ UNCHANGED <<sm_pc, sm_error>>
        /\ UNCHANGED <<fs_path, pool, conn, sm_api, sm_lent, sm_attempts,
                       sm_runs, sm_main, nonSchemaVars>>

\* SELECT InitSpatialMetadata(1)
InitSpatialMetadata ==
    /\ sm_pc = "spatial_metadata"
    /\ Statements(<<"InitSpatialMetadata">>, 1, "base_tables")

\* DROP TABLE IF EXISTS observations / storms, CREATE TABLE storms /
\* observations, one conn.execute(sql) each (schema.py lines 163-164); in
\* Load.init_database one cursor.execute runs them and the four CREATE
\* INDEX statements (load.py lines 80-127)
CreateBaseTables ==
    /\ sm_pc = "base_tables"
    /\ Statements(BaseTableStatements(sm_api),
                  IF sm_api = "Load" THEN Len(BaseTableStatements(sm_api))
                  ELSE 1,
                  "spatial_support")

\* AddGeometryColumn and CREATE TRIGGER observations_geom_validate
AddSpatialSupport ==
    /\ sm_pc = "spatial_support"
    /\ Statements(SpatialSupportStatements, 1, "validation_triggers")

\* CREATE TRIGGER observations_validate
CreateValidationTriggers ==
    /\ sm_pc = "validation_triggers"
    /\ Statements(<<"CREATE TRIGGER observations_validate">>, 1,
                  "indices")

\* CREATE INDEX (four, in SchemaManager) and CreateSpatialIndex.  After the
\* last statement no transaction is open, so no COMMIT runs, and the
\* finally clause is entered.
CreateIndices ==
    /\ sm_pc = "indices"
    /\ Statements(IndexStatements(sm_api), 1, "return_connection")

\* finally: manager.return_connection(conn) (schema.py line 70, load.py
\* line 193) puts the connection back on the queue
ReturnConnection ==
    /\ sm_pc = "return_connection"
    /\ pool' = Append(pool, conn)
    /\ conn' = 0
    /\ sm_pc' = "close_all"
    /\ UNCHANGED <<fs_path, inodes, faults, sm_api, sm_lent, sm_attempts,
                   sm_error, sm_runs, sm_stmt, sm_main, nonSchemaVars>>

\* finally: manager.close_all() (schema.py line 71, load.py line 194), the
\* loop test connection_pool.empty() (connection.py line 130)
CloseAll ==
    /\ sm_pc = "close_all"
    /\ sm_pc' = IF pool = <<>> THEN "closed" ELSE "close_all_get"
    /\ UNCHANGED <<fs_path, inodes, pool, conn, faults, sm_api, sm_lent,
                   sm_attempts, sm_error, sm_runs, sm_stmt, sm_main,
                   nonSchemaVars>>

\* conn = connection_pool.get_nowait() in close_all (connection.py line
\* 131): it takes a connection off the queue; on a queue another caller
\* has emptied since the test it raises queue.Empty, close_all raises
\* DatabaseConnectionError (lines 134-137), and this exception leaves the
\* finally clause in the place of any other.
CloseAllGet ==
    /\ sm_pc = "close_all_get"
    /\ IF pool = <<>>
         THEN /\ AttemptFailed("DatabaseConnectionError", "other")
              /\ UNCHANGED pool
         ELSE /\ pool' = Tail(pool)
              /\ sm_pc' = "close_all_close"
              /\ UNCHANGED sm_error
    /\ UNCHANGED <<fs_path, inodes, conn, faults, sm_api, sm_lent,
                   sm_attempts, sm_runs, sm_stmt, sm_main, nonSchemaVars>>

\* conn.close() in close_all (connection.py line 132) on the connection
\* taken: it closes the connection and the loop goes on with its test, or
\* it fails, close_all raises DatabaseConnectionError (lines 134-137) in the
\* place of any other exception, and the connections still queued stay
\* open.
CloseAllClose ==
    /\ sm_pc = "close_all_close"
    /\ \/ /\ sm_pc' = "close_all"
          /\ UNCHANGED sm_error
       \/ AttemptFailed("DatabaseConnectionError", "other")
    /\ UNCHANGED <<fs_path, inodes, pool, conn, faults, sm_api, sm_lent,
                   sm_attempts, sm_runs, sm_stmt, sm_main, nonSchemaVars>>

\* The finally clause has ended after an attempt that succeeded: break
\* leaves the retry loop (schema.py line 64) and the method returns.
InitializeReturn ==
    /\ sm_pc = "closed" /\ sm_error = NoFault
    /\ sm_pc' = "returned"
    /\ sm_runs' = sm_runs + 1
    /\ UNCHANGED <<fs_path, inodes, pool, conn, faults, sm_api, sm_lent,
                   sm_attempts, sm_error, sm_stmt, sm_main, nonSchemaVars>>

\* The finally clause has ended after an attempt that failed: the helper's
\* exception reaches the handlers.
InitializeRaise ==
    /\ sm_pc = "closed" /\ sm_error # NoFault
    /\ AttemptFailed(sm_error.class, sm_error.fault)
    /\ UNCHANGED <<fs_path, inodes, pool, conn, faults, sm_api, sm_lent,
                   sm_attempts, sm_runs, sm_stmt, sm_main, nonSchemaVars>>

\* The initialisation is run again: load_data once more (a new
\* SchemaManager, load/__init__.py lines 43-44), or init_database once
\* more.  Before that the first load_data went on with lines 47-53:
\* DatabaseOperations(db_path) opens a pool on the path, which creates an
\* empty database file when the path names none, and insert_storms may add
\* a row to the database the path names when it has the tables.  A new
\* database at the path resets the write-ahead log it finds there: when
\* connections of the SchemaManager's pool are still open (held by another
\* caller, or returned after the finally clause), that log is the one of
\* the unlinked database, whose connections from then on read the
\* database as it was when the pool was opened.  The spatial metadata may
\* have reached the file before, the transaction of InitSpatialMetadata
\* being the one large enough for a checkpoint of the log.
InitializeAgain ==
    /\ sm_pc = "returned" /\ sm_runs < MaxRuns
    /\ fs_path' = IF fs_path = 0 THEN Len(inodes) + 1 ELSE fs_path
    /\ \E added \in 0..1, checkpointed \in BOOLEAN :
          inodes' =
            IF fs_path = 0
              THEN Append(IF sm_lent \o pool = <<>> THEN inodes
                          ELSE [inodes EXCEPT ![Head(sm_lent \o pool)] =
                                   [sm_main EXCEPT !.spatial =
                                       IF checkpointed
                                         THEN inodes[Head(sm_lent \o pool)]
                                                  .spatial
                                       ELSE @]],
                          EmptyDatabase)
            ELSE IF inodes[fs_path].tables
              THEN [inodes EXCEPT ![fs_path].rows = @ + added]
            ELSE inodes
    /\ sm_pc' = IF sm_api = "Load" THEN "remove" ELSE "construct"
    /\ sm_attempts' = 0
    /\ sm_lent' = <<>>
    /\ pool' = <<>>
    /\ UNCHANGED <<conn, faults, sm_api, sm_error, sm_runs, sm_stmt, sm_main,
                   nonSchemaVars>>

NextSchema ==
    \/ SchemaManagerInit \/ OtherGetConnection \/ RemoveExisting \/ LoadOpen
    \/ GetConnection \/ OtherReturnConnection \/ GetConnectionWakes
    \/ GetConnectionTimesOut
    \/ InitSpatialMetadata \/ CreateBaseTables \/ AddSpatialSupport
    \/ CreateValidationTriggers \/ CreateIndices
    \/ ReturnConnection \/ CloseAll \/ CloseAllGet \/ CloseAllClose
    \/ InitializeReturn \/ InitializeRaise \/ InitializeAgain

SpecSchema == InitSchema /\ [][NextSchema]_vars

\* C7 (as claimed): initialize_database makes at most 3 attempts, and raises
\* DatabaseInitializationError only on a non-I/O failure or when the third
\* attempt in a row has failed with an I/O error; an earlier I/O failure is
\* followed by another attempt.
C7_RetriesOnIoError ==
    /\ sm_attempts <= retries
    /\ (sm_api = "SchemaManager" /\ sm_pc = "raised"
           /\ sm_error.class = "DatabaseInitializationError") =>
          \/ sm_error.fault = "other"
          \/ sm_error.fault = "io" /\ sm_attempts = retries

\* C8 (as claimed): the schema is built through a connection to the file the
\* target path names (the prior file is gone before that connection is
\* opened), and once initialisation has returned, however often it ran, the
\* file at the path holds the complete schema and no row.
C8_FreshSchemaAtPath ==
    /\ conn # 0 => conn = fs_path
    /\ sm_pc = "returned" =>
          /\ fs_path # 0
          /\ inodes[fs_path] = FreshSchema

(***************************************************************************)
(* parse_observation as a pure function: one call on a line built field by *)
(* field.                                                                  *)
(***************************************************************************)

\* status fields: three of the nine codes, UNKNOWN, an undefined code, empty
ObsStatusTexts ==
    { <<"H", "U">>,
      <<" ", "T", "D">>,
      <<"W", "V">>,
      <<"X", "X">>,
      <<"Z", "Z">>,
      <<>> }

\* latitude fields
ObsLatTexts ==
    { <<"2", "9", ".", "1", "N">>,
      <<"9", "1", ".", "0", "N">>,
      <<"1", "0", ".", "0", "W">> }

\* longitude fields
ObsLonTexts ==
    { <<" ", "9", "0", ".", "2", "W">>,
      <<"2", "0", "0", ".", "0", "W">>,
      <<"3", "5", ".", "9", "E">> }

\* max wind fields
ObsWindTexts ==
    { <<"1", "3", "0">>,
      <<"-", "9", "9", "9">>,
      <<"-", "9", "9">>,
      <<"-", "5">>,
      <<" ", " ", "0">> }

\* pressure fields
ObsPressureTexts ==
    { <<"9", "3", "1">>,
      <<"-", "9", "9">> }

\* wind radius fields (the same text in all 12)
ObsRadiusTexts ==
    { <<"0">>,
      <<"-", "9", "9", "9">>,
      <<" ", "4", "0">> }

\* radius of maximum wind fields
ObsMaxRadiusTexts ==
    { <<"1", "5">>,
      <<"-", "9", "9", "9">> }

\* what follows the 20th field: the 21st field; nothing (20 fields); the
\* 21st and a 22nd field; the 21st and a trailing comma
ObsTails(mwr) ==
    { <<",">> \o mwr, <<>>, <<",">> \o mwr \o <<",", "7">>,
      <<",">> \o mwr \o <<",">> }

RECURSIVE Repeat(_, _)
Repeat(s, n) == IF n = 0 THEN <<>> ELSE s \o Repeat(s, n - 1)

ObservationInputs ==
    { <<"2","0","0","5","0","8","2","9",",","1","2","0","0",",","L",",">>
        \o st \o <<",">> \o la \o <<",">> \o lo \o <<",">> \o w \o <<",">> \o p
        \o Repeat(<<",">> \o r, 12) \o tl :
        st \in ObsStatusTexts, la \in ObsLatTexts, lo \in ObsLonTexts,
        w \in ObsWindTexts, p \in ObsPressureTexts, r \in ObsRadiusTexts,
        tl \in UNION {ObsTails(mwr) : mwr \in ObsMaxRadiusTexts} }

InitObservation ==
    /\ PipelineIdle
    /\ PoolIdle
    /\ ExtractIdle
    /\ LoadIdle
    /\ SchemaIdle
    /\ TransformIdle
    /\ fn = "parse_observation"
    /\ arg \in ObservationInputs
    /\ ret = <<>>

\* parse_observation(arg) returns, or raises ExtractionError (ret.ok = FALSE)
CallParseObservation ==
    /\ fn = "parse_observation"
    /\ ret' = parse_observation(arg)
    /\ fn' = "parse_observation returned"
    /\ UNCHANGED <<arg, nonCallVars>>

NextObservation == CallParseObservation

SpecObservation == InitObservation /\ [][NextObservation]_vars

\* the comma-separated fields of a line, trimmed
FieldsOf(line) == StripAll(Split(line, ","))

\* C11 (as claimed): parse_observation returns an Observation only for a line
\* of exactly 21 comma-separated fields; fewer or more fields raise
\* ExtractionError.
C11_ExactlyTwentyOneFields ==
    (fn = "parse_observation returned" /\ ret.ok) => Len(FieldsOf(arg)) = 21

\* the nine status codes the claim lists
ClaimedStatusCodes ==
    { <<"T","D">>, <<"T","S">>, <<"H","U">>, <<"E","X">>, <<"S","D">>,
      <<"S","S">>, <<"L","O">>, <<"W","V">>, <<"D","B">> }

\* C12 (as claimed): parse_observation returns an Observation only for a line
\* whose status field is one of TD, TS, HU, EX, SD, SS, LO, WV, DB; any other
\* status, "XX" included, raises ExtractionError.
C12_OnlyNineStatusCodes ==
    (fn = "parse_observation returned" /\ ret.ok)
        => FieldsOf(arg)[4] \in ClaimedStatusCodes

\* the integer a numeric field of the input lines denotes
SourceInteger(text) ==
    CASE text = <<"1","3","0">> -> 130
      [] text = <<"-","9","9","9">> -> -999
      [] text = <<"-","9","9">> -> -99
      [] text = <<"-","5">> -> -5
      [] text = <<"0">> -> 0
      [] text = <<"9","3","1">> -> 931
      [] text = <<"4","0">> -> 40
      [] text = <<"1","5">> -> 15

\* C13: in the Observation parse_observation returns, each of the 15 numeric
\* fields (maximum wind, minimum pressure, 12 wind radii, radius of maximum
\* wind) is absent when the source integer is -999 or -99 and equals the
\* source integer otherwise, and none holds a negative value.
C13_NumericFieldsAbsentOrSource ==
    (fn = "parse_observation returned" /\ ret.ok) =>
        \A i \in 1..15 :
            /\ SourceInteger(FieldsOf(arg)[6 + i]) \in {-999, -99}
                => ret.obs.numeric[i] = None
            /\ SourceInteger(FieldsOf(arg)[6 + i]) \notin {-999, -99}
                => ret.obs.numeric[i] = Some(SourceInteger(FieldsOf(arg)[6 + i]))
            /\ ret.obs.numeric[i] = None \/ ret.obs.numeric[i][1] >= 0

\* an Observation returned for a line with maximum wind -99, pressure 931
\* and wind radii " 40"
C13_Witness ==
    /\ fn = "parse_observation returned"
    /\ ret.ok
    /\ FieldsOf(arg)[7] = <<"-","9","9">>
    /\ ret.obs.numeric[1] = None
    /\ ret.obs.numeric[2] = Some(931)
    /\ ret.obs.numeric[3] = Some(40)

(***************************************************************************)
(* Point construction and coordinate parsing as pure calls.                *)
(***************************************************************************)

\* the text before the letter, the blanks between, the letter
CoordPrefixes ==
    { <<"2", "9", ".", "1">>,
      <<"9", "0", ".", "2">>,
      <<"0", ".", "0">>,
      <<"9", "0", ".", "0">>,
      <<"9", "1", ".", "0">>,
      <<"1", "8", "0", ".", "0">>,
      <<"2", "0", "0", ".", "0">>,
      <<"3", "6", "0", ".", "0">>,
      <<"3", "6", "0", ".", "5">>,
      <<"4", "5">>,
      <<".", "5">>,
      <<"A", "B", "C">>,
      <<>>,
      <<" ", "1", "0", ".", "5">>,
      <<"2", "9", ".", "1", "X">> }

CoordGaps == { <<>>, <<" ">> }

CoordLetters == { <<"N">>, <<"S">>, <<"E">>, <<"W">>, <<"X">>, <<>>, <<"n">>, <<"w">> }

CoordInputs ==
    { p \o g \o l : p \in CoordPrefixes, g \in CoordGaps, l \in CoordLetters }
        \cup { <<"N","2","9",".","1">>, <<"W","9","0",".","2">> }

\* values for Point(latitude=, longitude=): strings and raw decimals
LatitudeValues ==
    { [str |-> x] : x \in { <<"2", "9", ".", "1", "N">>, <<"9", "0", ".", "0", "S">>, <<"9", "1", ".", "0", "N">>, <<"1", "0", ".", "0", "E">>, <<"2", "9", ".", "1">> } }
        \cup { [num |-> n] : n \in {-910, -900, 0, 291, 900, 910} }

LongitudeValues ==
    { [str |-> x] : x \in { <<"9", "0", ".", "2", "W">>,
                            <<"1", "8", "0", ".", "0", "E">>,
                            <<"1", "8", "0", ".", "0", "W">>,
                            <<"1", "8", "1", ".", "0", "E">>,
                            <<"2", "0", "0", ".", "0", "W">>,
                            <<"3", "6", "0", ".", "0", "E">>,
                            <<"3", "6", "1", ".", "0", "W">>,
                            <<"9", "0", ".", "2", "N">> } }
        \cup { [num |-> n] :
                 n \in {-3605, -2000, -1800, -902, 0, 1800, 1810, 2000, 3600} }

\* raw longitudes for etl_script.Point: every half degree of +-MaxRawLongitude
MaxRawLongitude == 725

RawLongitudes == { 5 * k : k \in (0 - 2 * MaxRawLongitude)..(2 * MaxRawLongitude) }

RawLatitudes == {-905, -900, 0, 900, 905}

InitPoint ==
    /\ PipelineIdle
    /\ PoolIdle
    /\ ExtractIdle
    /\ LoadIdle
    /\ SchemaIdle
    /\ TransformIdle
    /\ ret = <<>>
    /\ \/ fn = "Point" /\ arg \in LatitudeValues \X LongitudeValues
       \/ fn = "Point.parse_hurdat2" /\ arg \in CoordInputs \X BOOLEAN
       \/ fn = "etl_script.Point" /\ arg \in RawLatitudes \X RawLongitudes
       \/ fn = "norm_lon" /\ arg \in {<<lon>> : lon \in RawLongitudes}

\* Point(latitude=arg[1], longitude=arg[2]) of models.py
CallPoint ==
    /\ fn = "Point"
    /\ ret' = PointFromValues(arg[1], arg[2])
    /\ fn' = "Point returned"
    /\ UNCHANGED <<arg, nonCallVars>>

\* Point.parse_hurdat2(coord=arg[1], is_latitude=arg[2])
CallParseHurdat2 ==
    /\ fn = "Point.parse_hurdat2"
    /\ ret' = Point_parse_hurdat2(arg[1], arg[2])
    /\ fn' = "Point.parse_hurdat2 returned"
    /\ UNCHANGED <<arg, nonCallVars>>

\* Point(arg[1], arg[2]) of etl_script.py
CallEtlScriptPoint ==
    /\ fn = "etl_script.Point"
    /\ ret' = Point_post_init(arg[1], arg[2])
    /\ fn' = "etl_script.Point returned"
    /\ UNCHANGED <<arg, nonCallVars>>

\* The normalized_bounds expression of the spatial coverage query
\* (load.py lines 406-410, reporting.py lines 247-251), in tenths of a
\* degree:
\*   CASE WHEN lon > 180 THEN lon - 360 WHEN lon < -180 THEN lon + 360
\*        ELSE lon END as norm_lon
norm_lon(lon) ==
    IF lon > 1800 THEN lon - 3600
    ELSE IF lon < -1800 THEN lon + 3600
    ELSE lon

\* the query's norm_lon evaluated on one longitude
CallNormLon ==
    /\ fn = "norm_lon"
    /\ ret' = [norm_lon |-> norm_lon(arg[1])]
    /\ fn' = "norm_lon returned"
    /\ UNCHANGED <<arg, nonCallVars>>

NextPoint ==
    CallPoint \/ CallParseHurdat2 \/ CallEtlScriptPoint \/ CallNormLon

SpecPoint == InitPoint /\ [][NextPoint]_vars

\* C14 (as claimed): every Point constructed from strings or from raw decimal
\* degrees has latitude in [-90, 90] and longitude in (-180, 180].
C14_PointInCanonicalRange ==
    (fn = "Point returned" /\ ret.ok) =>
        /\ -900 <= ret.latitude /\ ret.latitude <= 900
        /\ -1800 < ret.longitude /\ ret.longitude <= 1800

\* C15 (as claimed): for every raw longitude d, normalize(d) is defined, lies
\* in (-180, 180], and normalize(normalize(d)) = normalize(d).
C15_NormalizeIdempotentInRange ==
    (fn = "etl_script.Point returned" /\ -900 <= arg[1] /\ arg[1] <= 900) =>
        /\ ret.ok
        /\ -1800 < ret.longitude /\ ret.longitude <= 1800
        /\ normalize_longitude(ret.longitude) = ret.longitude

\* the trailing letter of a coordinate text, in upper case ("" if empty)
CoordLetterOf(coord) ==
    IF coord = <<>> THEN "" ELSE UpperChar(coord[Len(coord)])

\* the magnitude written before the trailing character, in tenths of a
\* degree; -1 when that text is not a decimal magnitude
ClaimedMagnitude(coord) ==
    LET prefix == IF coord = <<>> THEN <<>>
                  ELSE Strip(SubSeq(coord, 1, Len(coord) - 1))
    IN  CASE prefix = <<"2","9",".","1">> -> 291
          [] prefix = <<"9","0",".","2">> -> 902
          [] prefix = <<"0",".","0">> -> 0
          [] prefix = <<"9","0",".","0">> -> 900
          [] prefix = <<"9","1",".","0">> -> 910
          [] prefix = <<"1","8","0",".","0">> -> 1800
          [] prefix = <<"2","0","0",".","0">> -> 2000
          [] prefix = <<"3","6","0",".","0">> -> 3600
          [] prefix = <<"3","6","0",".","5">> -> 3605
          [] prefix = <<"4","5">> -> 450
          [] prefix = <<".","5">> -> 5
          [] prefix = <<"1","0",".","5">> -> 105
          [] OTHER -> -1

AxisLetters(is_latitude) == IF is_latitude THEN {"N", "S"} ELSE {"E", "W"}

SignedMagnitude(coord) ==
    IF CoordLetterOf(coord) \in {"S", "W"} THEN 0 - ClaimedMagnitude(coord)
    ELSE ClaimedMagnitude(coord)

\* C16 (as claimed, with the latitude bound of the same contract): parsing
\* a decimal magnitude m followed by a cardinal letter of the axis returns m
\* for N or E and -m for S or W, a latitude above 90 excepted, which fails;
\* a longitude has no bound at parsing.  Every other text (letter absent, not
\* one of the four, before the number, of the other axis, or a prefix that
\* does not parse as a float) fails.
C16_ParseSignedMagnitude ==
    fn = "Point.parse_hurdat2 returned" =>
        IF /\ CoordLetterOf(arg[1]) \in AxisLetters(arg[2])
           /\ ClaimedMagnitude(arg[1]) >= 0
           /\ arg[2] => ClaimedMagnitude(arg[1]) <= 900
          THEN ret.ok /\ ret.val = SignedMagnitude(arg[1])
          ELSE ~ret.ok

(***************************************************************************)
(* Transform.process (transform/transform.py)                              *)
(***************************************************************************)

\* str(n) for n >= 0
RECURSIVE PyStr(_)
PyStr(n) ==
    IF n < 10 THEN << CHOOSE c \in Digits : DigitVal(c) = n >>
    ELSE PyStr(n \div 10) \o << CHOOSE c \in Digits : DigitVal(c) = n % 10 >>

\* Storm.storm_id: f"{self.basin}{self.cyclone_number}{self.year}"
storm_id(storm) ==
    storm.basin \o PyStr(storm.cyclone_number) \o PyStr(storm.year)

\* Storm(basin=..., cyclone_number=..., year=..., name=...) built from the
\* tuple parse_header returned, as parse_hurdat2 builds it (parser.py lines
\* 236-242), and its storm_id property read.
CallStormId ==
    /\ fn = "parse_header returned"
    /\ ret.ok
    /\ StormValid(ret.basin, ret.number, ret.year, ret.name)
    /\ ret' = [storm_id |->
                  storm_id(Storm(ret.basin, ret.number, ret.year, ret.name,
                                 <<>>))]
    /\ fn' = "Storm.storm_id returned"
    /\ UNCHANGED <<arg, nonCallVars>>

NextHeader == CallParseHeader \/ CallStormId

SpecHeader == InitHeader /\ [][NextHeader]_vars

\* the bounding box of transform_data, in degrees
atlantic_bounds == [west |-> -140, east |-> 65, south |-> 0, north |-> 85]

\* the condition of transform_data's if statement
OutsideAtlantic(obs) ==
    ~(/\ 10 * atlantic_bounds.west <= obs.longitude
      /\ obs.longitude <= 10 * atlantic_bounds.east
      /\ 10 * atlantic_bounds.south <= obs.latitude
      /\ obs.latitude <= 10 * atlantic_bounds.north)

\* the records logger.info receives for observations[i..], in order
RECURSIVE OutsideRecords(_, _, _)
OutsideRecords(storm, obs, i) ==
    IF i > Len(obs) THEN <<>>
    ELSE (IF OutsideAtlantic(obs[i])
            THEN << [latitude |-> obs[i].latitude,
                     longitude |-> obs[i].longitude,
                     storm_id |-> storm_id(storm)] >>
            ELSE <<>>)
         \o OutsideRecords(storm, obs, i + 1)

transform_dataDropsOutside(storm) ==
    [storm |-> [storm EXCEPT !.observations =
                    SelectSeq(storm.observations,
                              LAMBDA o : ~OutsideAtlantic(o))],
     logged |-> OutsideRecords(storm, storm.observations, 1)]

\* transform_data(storm): the Storm it returns and what it logs
transform_data(storm) ==
    [storm |-> storm,
     logged |-> OutsideRecords(storm, storm.observations, 1)]

\* normalize_data(observation): a stub that returns its argument
normalize_data(observation) == observation

\* Observations in the box, on its corners, and outside it on each side
OB_SW_CORNER == ObservationWith(<<"T","S">>, 0, -1400, 35)
OB_NE_CORNER == ObservationWith(<<"E","X">>, 850, 650, 40)
OB_SOUTH == ObservationWith(<<"T","D">>, -5, -300, 30)
OB_NORTH_EAST == ObservationWith(<<"E","X">>, 855, 655, 30)

\* the observation lists of the Storms handed to Transform.process
TransformObservationLists ==
    { <<>>, <<OB_HU>>, <<OB_SOUTH>>, <<OB_FAR, OB_SW_CORNER>>,
      <<OB_NE_CORNER, OB_SOUTH>>, <<OB_SW_CORNER, OB_NE_CORNER>>,
      <<OB_HU, OB_NORTH_EAST, OB_TS>> }

MaxTransformStorms == 2

TransformStorms ==
    { Storm(<<"A","L">>, 9, 2005, <<"I","R","E","N","E">>, obs) :
        obs \in TransformObservationLists }

InitTransform ==
    /\ PipelineIdle
    /\ PoolIdle
    /\ ExtractIdle
    /\ CallIdle
    /\ LoadIdle
    /\ SchemaIdle
    /\ tr_data \in UNION {[1..n -> TransformStorms] : n \in 0..MaxTransformStorms}
    /\ tr_progress_enabled \in BOOLEAN
    /\ tr_fail_at \in 0..MaxTransformStorms
    /\ tr_pc = "called" /\ tr_storms = <<>> /\ tr_i = 0 /\ tr_yielded = <<>>
    /\ tr_log = <<>> /\ tr_error = "none" /\ tr_bar = NoBar

\* first next(): storms = list(data), init_progress, then the for loop
TransformBegin ==
    /\ tr_pc = "called"
    /\ tr_storms' = tr_data
    /\ tr_i' = 1
    /\ tr_pc' = "loop"
    /\ tr_bar' = init_progress(tr_bar, tr_progress_enabled, Len(tr_data))
    /\ UNCHANGED <<tr_data, tr_progress_enabled, tr_fail_at, tr_yielded,
                   tr_log, tr_error, nonTransformVars>>

\* update_progress raises ProgressError: progress is enabled, the bar is
\* truthy and its update fails
UpdateFails == tr_progress_enabled /\ tr_fail_at = tr_i

\* the Storm the loop body yields
Transformed(t) ==
    [t.storm EXCEPT !.observations =
        [k \in 1..Len(t.storm.observations) |->
            normalize_data(t.storm.observations[k])]]

\* One iteration of the for loop with t = transform_data(storm): the
\* observations are rebuilt, the progress bar is updated, and the Storm is
\* yielded; an exception is wrapped in TransformError by both handlers, and
\* the finally clause calls close_progress.
TransformIteration(t) ==
    /\ tr_log' = tr_log \o t.logged
    /\ IF UpdateFails
         THEN /\ tr_pc' = "raised"
              /\ tr_error' = "TransformError"
              /\ tr_bar' = close_progress(tr_bar)
              /\ UNCHANGED <<tr_yielded, tr_i>>
         ELSE /\ tr_yielded' = Append(tr_yielded, Transformed(t))
              /\ tr_i' = tr_i + 1
              /\ tr_bar' = update_progress(tr_bar, 1)
              /\ UNCHANGED <<tr_pc, tr_error>>

TransformStorm ==
    /\ tr_pc = "loop"
    /\ tr_i <= Len(tr_storms)
    /\ TransformIteration(transform_data(tr_storms[tr_i]))
    /\ UNCHANGED <<tr_data, tr_progress_enabled, tr_fail_at, tr_storms,
                   nonTransformVars>>

\* the loop is over: close_progress, and the generator returns
TransformReturn ==
    /\ tr_pc = "loop"
    /\ tr_i > Len(tr_storms)
    /\ tr_pc' = "returned"
    /\ tr_bar' = close_progress(tr_bar)
    /\ UNCHANGED <<tr_data, tr_progress_enabled, tr_fail_at, tr_storms, tr_i,
                   tr_yielded, tr_log, tr_error, nonTransformVars>>

NextTransform == TransformBegin \/ TransformStorm \/ TransformReturn

SpecTransform == InitTransform /\ [][NextTransform]_vars

\* the bounding box the claim states, in tenths of a degree: longitude in
\* [-140, 65] and latitude in [0, 85], bounds inclusive
OutOfBox(obs) ==
    \/ obs.longitude < -1400 \/ obs.longitude > 650
    \/ obs.latitude < 0 \/ obs.latitude > 850

\* the out-of-box observations of the first n input Storms, in order
RECURSIVE OutOfBoxUpTo(_)
OutOfBoxUpTo(n) ==
    IF n = 0 THEN <<>>
    ELSE OutOfBoxUpTo(n - 1) \o SelectSeq(tr_data[n].observations, OutOfBox)

\* C17: Transform.process yields the input Storms in order, each equal to
\* the input Storm (same observations, same order, same field values),
\* whether or not an observation is outside the bounding box; an out-of-box
\* observation is logged, once, and nothing else is; the generator raises
\* only when the progress bar failed, and otherwise returns having yielded
\* every input Storm.
C17_TransformYieldsInputUnchanged ==
    /\ Len(tr_yielded) <= Len(tr_data)
    /\ tr_yielded = SubSeq(tr_data, 1, Len(tr_yielded))
    /\ tr_pc = "returned" => tr_yielded = tr_data
    /\ tr_pc = "raised" => tr_progress_enabled /\ tr_fail_at = tr_i
    /\ tr_pc \in {"loop", "returned"} =>
         /\ Len(tr_log) = Len(OutOfBoxUpTo(Len(tr_yielded)))
         /\ \A k \in 1..Len(tr_log) :
              /\ tr_log[k].latitude = OutOfBoxUpTo(Len(tr_yielded))[k].latitude
              /\ tr_log[k].longitude = OutOfBoxUpTo(Len(tr_yielded))[k].longitude

\* the generator returned after yielding two Storms, the first holding an
\* observation outside the box and one on its corner
C17_Witness ==
    /\ tr_pc = "returned"
    /\ Len(tr_yielded) = 2
    /\ tr_yielded[1].observations = <<OB_FAR, OB_SW_CORNER>>
    /\ Len(tr_log) >= 1

\* the messages of what can fail while a storm is inserted: the validity
\* check, a constraint of the storms table, a trigger of the observations
\* table
StormFailureCauses ==
    {"Invalid storm data", "constraint failed", "trigger rejected a row"}

\* C18 (as claimed): a failure while storm ld_i is inserted leaves
\* insert_storms as a DatabaseInsertionError whose message names that storm
\* and carries the message of the underlying cause, also when the engine
\* rolled the transaction back before the handler's ROLLBACK.
C18_InsertionErrorNamesStormAndCause ==
    (ld_pc = "raised" /\ ld_error.storm >= 1) =>
        /\ ld_error.class = "DatabaseInsertionError"
        /\ ld_error.names = ld_storms[ld_error.storm].name
        /\ ld_error.cause \in StormFailureCauses

\* the row the store should hold for an observation of the storm with row
\* id sid: the model's field values, unchanged
RowOf(obs, sid) ==
    [storm_id |-> sid, date |-> obs.date,
     record_identifier |-> obs.record_identifier, status |-> obs.status,
     numeric |-> obs.numeric, x |-> obs.longitude, y |-> obs.latitude]

WithoutId(row) ==
    [storm_id |-> row.storm_id, date |-> row.date,
     record_identifier |-> row.record_identifier, status |-> row.status,
     numeric |-> row.numeric, x |-> row.x, y |-> row.y]

\* the input storms of a basin, by index
InputStormsOf(basin) == {k \in 1..Len(ld_storms) : ld_storms[k].basin = basin}

RECURSIVE TotalObservations(_)
TotalObservations(ks) ==
    IF ks = {} THEN 0
    ELSE LET k == CHOOSE x \in ks : TRUE
         IN  Len(ld_storms[k].observations) + TotalObservations(ks \ {k})

\* C19: after insert_storms returned on a fresh store, the store holds one
\* storms row per input storm and one observations row per observation,
\* each linked to the generated id of its storm and holding the model's
\* field values unchanged (None as NULL, a literal -999 or -99 as that
\* literal); basin coverage then reports, for each basin of the input and no
\* other, the number of its storms and the total of their observations over
\* that number.
C19_RoundTripAndBasinCoverage ==
    ld_pc = "returned" =>
        /\ Len(committed.storms) = Len(ld_storms)
        /\ \A k \in 1..Len(ld_storms) :
              /\ committed.storms[k].basin = ld_storms[k].basin
              /\ committed.storms[k].cyclone_number = ld_storms[k].cyclone_number
              /\ committed.storms[k].year = ld_storms[k].year
              /\ committed.storms[k].name = ld_storms[k].name
              /\ \A j \in 1..Len(ld_storms) :
                    j # k => committed.storms[j].id # committed.storms[k].id
              /\ Len(ObservationsOf(committed, committed.storms[k].id))
                     = Len(ld_storms[k].observations)
              /\ \A m \in 1..Len(ld_storms[k].observations) :
                    WithoutId(ObservationsOf(committed, committed.storms[k].id)[m])
                        = RowOf(ld_storms[k].observations[m],
                                committed.storms[k].id)
        /\ Len(committed.observations) = TotalObservations(1..Len(ld_storms))
        /\ fn = "validate_database returned" =>
              /\ \A k \in 1..Len(ld_storms) :
                    \E i \in 1..Len(ret.basin_stats) :
                        ret.basin_stats[i].basin = ld_storms[k].basin
              /\ \A i \in 1..Len(ret.basin_stats) :
                    /\ InputStormsOf(ret.basin_stats[i].basin) # {}
                    /\ ret.basin_stats[i].storm_count
                           = Cardinality(InputStormsOf(ret.basin_stats[i].basin))
                    /\ ret.basin_stats[i].avg_observations_per_storm
                           = [sum |-> TotalObservations(
                                          InputStormsOf(ret.basin_stats[i].basin)),
                              count |-> Cardinality(
                                          InputStormsOf(ret.basin_stats[i].basin))]
                    /\ \A j \in 1..Len(ret.basin_stats) :
                          j # i => ret.basin_stats[j].basin
                                       # ret.basin_stats[i].basin

\* ARLENE (AL, two observations) and EMILY (EP, maximum wind -999 and None)
\* were inserted and basin coverage was reported
C19_Witness ==
    /\ ld_pc = "returned"
    /\ ld_storms = <<ST_ARLENE, ST_EMILY>>
    /\ fn = "validate_database returned"
    /\ Len(ret.basin_stats) = 2
    /\ committed.observations[3].numeric[1] = Some(-999)
    /\ committed.observations[4].numeric[1] = None

\* what the claim requires of an observation row, in tenths of a degree
RowAdmissible(x, y, status, max_wind, min_pressure) ==
    /\ -1800 <= x /\ x <= 1800
    /\ -900 <= y /\ y <= 900
    /\ status \in ClaimedStatusCodes
    /\ max_wind = None \/ max_wind[1] >= 0 \/ max_wind[1] \in {-999, -99}
    /\ min_pressure = None \/ min_pressure[1] >= 0
           \/ min_pressure[1] \in {-999, -99}

RowsAdmissible(st) ==
    \A i \in 1..Len(st.observations) :
        RowAdmissible(st.observations[i].x, st.observations[i].y,
                      st.observations[i].status,
                      st.observations[i].numeric[1],
                      st.observations[i].numeric[2])

\* C20: in every state of the store, as the connection sees it and as
\* committed, every observation row has longitude in [-180, 180], latitude in
\* [-90, 90], one of the nine statuses, and max_wind and min_pressure each
\* NULL, non-negative or a sentinel; insert_storms does not return when an
\* observation handed to it would break this, and what it raises while
\* inserting a storm is a DatabaseInsertionError.
C20_ObservationRowsAdmissible ==
    /\ RowsAdmissible(store)
    /\ RowsAdmissible(committed)
    /\ ld_pc = "returned" =>
          \A k \in 1..Len(ld_storms) :
              \A m \in 1..Len(ld_storms[k].observations) :
                  RowAdmissible(ld_storms[k].observations[m].longitude,
                                ld_storms[k].observations[m].latitude,
                                ld_storms[k].observations[m].status,
                                ld_storms[k].observations[m].numeric[1],
                                ld_storms[k].observations[m].numeric[2])
    /\ (ld_pc = "raised" /\ ld_error.storm >= 1) =>
          ld_error.class = "DatabaseInsertionError"

\* GERT's second observation (pressure -5) was rejected after its first was
\* stored; the call raised DatabaseInsertionError
C20_Witness ==
    /\ ld_pc = "raised"
    /\ ld_api = "Load"
    /\ ld_storms = <<ST_EMILY, ST_GERT>>
    /\ ld_error.class = "DatabaseInsertionError"
    /\ Len(committed.observations) = 3
    /\ committed.observations[1].numeric[1] = Some(-999)

(***************************************************************************)
(* validate_database as an observer of the store                           *)
(***************************************************************************)

\* a step of validate_database: the only call recorded in fn here
ValidateDatabaseStep == fn = "none" /\ fn' # "none"

\* C21: validate_database leaves every storms row and every observations
\* row unchanged, whether it returns its analyses or raises
\* DatabaseValidationError; when it raises after insert_storms returned
\* inside Load.process, the rows that load persisted are still in the store
\* (one storms row per input storm, one observations row per observation).
C21_ValidateDatabaseChangesNoRow ==
    [][ValidateDatabaseStep =>
          /\ store' = store
          /\ committed' = committed
          /\ (fn' = "validate_database raised" /\ ld_api = "Load"
                  /\ ld_pc = "returned") =>
                /\ Len(committed'.storms) = Len(ld_storms)
                /\ Len(committed'.observations)
                      = TotalObservations(1..Len(ld_storms))]_vars

C21_Witness ==
    /\ fn = "validate_database raised"
    /\ ld_api = "Load" /\ ld_pc = "returned"
    /\ Len(committed.storms) = 2
    /\ Len(committed.observations) >= 2

(***************************************************************************)
(* The exception classes that leave the components                         *)
(***************************************************************************)

\* C22 (as claimed): every failure that leaves schema initialisation
\* (Load.init_database, SchemaManager.initialize_database) is a
\* DatabaseInitializationError, the failure of removing the prior database
\* file included.
C22_OnlyDomainErrorsEscape ==
    sm_pc = "raised" => sm_error.class = "DatabaseInitializationError"

(***************************************************************************)
(* Storm.storm_id against the cyclone id of the header                     *)
(***************************************************************************)

\* C24 (as claimed): for every header parse_header accepts whose fields
\* pass Storm validation, the Storm's storm_id equals the 8-character
\* cyclone id of the header line (its first field, trimmed), ids whose
\* cyclone number has a leading zero included.
C24_StormIdIsHeaderId ==
    fn = "Storm.storm_id returned" =>
        /\ Len(ret.storm_id) = CYCLONE_ID_LENGTH
        /\ ret.storm_id = ClaimedHeaderParts(arg)[1]

(***************************************************************************)
(* The query-time longitude rule against the construction-time rule        *)
(***************************************************************************)

\* C28 (as claimed): for every longitude lon the spatial coverage query's
\* renormalisation gives the same result as the construction-time rule
\* ((lon + 180) mod 360) - 180, at 180, at -180 and beyond +-540 included.
C28_QueryRuleIsConstructionRule ==
    fn = "norm_lon returned" =>
        ret.norm_lon = normalize_longitude(arg[1])

(***************************************************************************)
(* Model validation against the constraints of the store                   *)
(***************************************************************************)

\* C30 (as claimed): every Observation parse_observation returns passes
\* both BEFORE INSERT triggers of the observations table (status in the
\* closed set of the trigger, longitude in [-180, 180], latitude in
\* [-90, 90]), so that an extracted file never fails insertion on a range
\* or vocabulary constraint.
C30_ParsedObservationPassesTriggers ==
    (fn = "parse_observation returned" /\ ret.ok) =>
        ~TriggerRejects(ret.obs)

(***************************************************************************)
(* DatabaseManager (load/connection.py): a pool of connections             *)
(***************************************************************************)

\* the largest pool_size, the longest sequence of calls and the most callers
\* that wait in get_connection, or are inside close_all, at a time
MaxPoolSize == 3
MaxPoolCalls == 6
MaxWaiters == 2
MaxClosers == 2

\* After DatabaseManager(db_path, pool_size): _initialize_pool has put
\* pool_size new connections, numbered here in the order of their creation,
\* on the queue (lines 49-52).  The manager is used by several callers at a
\* time; every operation of the queue is atomic (queue.Queue holds its
\* mutex), a method that makes several of them is not.
InitPool ==
    /\ PipelineIdle
    /\ ExtractIdle
    /\ CallIdle
    /\ LoadIdle
    /\ SchemaIdle
    /\ TransformIdle
    /\ dm_pool_size \in 0..MaxPoolSize
    /\ dm_pool = [i \in 1..dm_pool_size |-> i]
    /\ dm_held = {}
    /\ dm_closed = {}
    /\ dm_last = NoCall
    /\ dm_calls = 0
    /\ dm_waiting = 0
    /\ dm_closer = NoCloser

\* what a call that has just ended met and how it ended
CallEnded(op, raised) ==
    [op |-> op, available |-> Len(dm_pool),
     handed_out |-> Cardinality(dm_held), raised |-> raised]

\* Variant that opens another connection when the queue is empty instead
\* of waiting: the bound on the connections handed out must tell it from
\* the real method.
get_connection_grows ==
    /\ dm_calls < MaxPoolCalls
    /\ dm_calls' = dm_calls + 1
    /\ dm_last' = CallEnded("get_connection", FALSE)
    /\ IF dm_pool = <<>>
         THEN /\ dm_held' = dm_held \cup {dm_pool_size + dm_calls + 1}
              /\ UNCHANGED dm_pool
         ELSE /\ dm_held' = dm_held \cup {Head(dm_pool)}
              /\ dm_pool' = Tail(dm_pool)
    /\ UNCHANGED <<dm_pool_size, dm_closed, dm_waiting, dm_closer,
                   nonPoolVars>>

\* get_connection (lines 88-100): connection_pool.get(timeout=...) takes the
\* oldest queued connection, or, on an empty queue, waits.
get_connection ==
    /\ dm_calls < MaxPoolCalls
    /\ dm_pool # <<>> \/ dm_waiting < MaxWaiters
    /\ dm_calls' = dm_calls + 1
    /\ IF dm_pool = <<>>
         THEN /\ dm_waiting' = dm_waiting + 1
              /\ UNCHANGED <<dm_pool, dm_held, dm_last>>
         ELSE /\ dm_held' = dm_held \cup {Head(dm_pool)}
              /\ dm_pool' = Tail(dm_pool)
              /\ dm_last' = CallEnded("get_connection", FALSE)
              /\ UNCHANGED dm_waiting
    /\ UNCHANGED <<dm_pool_size, dm_closed, dm_closer, nonPoolVars>>

\* A waiting get_connection finds a connection that was returned meanwhile
\* and takes it.
get_connection_wakes ==
    /\ dm_waiting > 0
    /\ dm_pool # <<>>
    /\ dm_waiting' = dm_waiting - 1
    /\ dm_held' = dm_held \cup {Head(dm_pool)}
    /\ dm_pool' = Tail(dm_pool)
    /\ dm_last' = CallEnded("get_connection", FALSE)
    /\ UNCHANGED <<dm_pool_size, dm_closed, dm_calls, dm_closer, nonPoolVars>>

\* The timeout of a waiting get_connection is over and the queue is still
\* empty: queue.Empty, raised as DatabaseConnectionError (lines 101-106).
get_connection_times_out ==
    /\ dm_waiting > 0
    /\ dm_pool = <<>>
    /\ dm_waiting' = dm_waiting - 1
    /\ dm_last' = CallEnded("get_connection", TRUE)
    /\ UNCHANGED <<dm_pool_size, dm_pool, dm_held, dm_closed, dm_calls,
                   dm_closer, nonPoolVars>>

\* return_connection(conn) (lines 108-121) on a connection the caller
\* obtained and has not returned since: connection_pool.put(conn) on an
\* unbounded Queue.
return_connection ==
    /\ dm_calls < MaxPoolCalls
    /\ \E c \in dm_held :
          /\ dm_pool' = Append(dm_pool, c)
          /\ dm_held' = dm_held \ {c}
    /\ dm_calls' = dm_calls + 1
    /\ dm_last' = CallEnded("return_connection", FALSE)
    /\ UNCHANGED <<dm_pool_size, dm_closed, dm_waiting, dm_closer,
                   nonPoolVars>>

\* close_all is called (lines 123-129).  dm_closer counts the callers that
\* stand before the loop test (test) and before get_nowait (get), and
\* holds the connections taken off the queue and not yet closed (close),
\* one for each caller that stands before conn.close().
close_all ==
    /\ dm_calls < MaxPoolCalls
    /\ dm_closer.test + dm_closer.get + Cardinality(dm_closer.close)
          < MaxClosers
    /\ dm_calls' = dm_calls + 1
    /\ dm_closer' = [dm_closer EXCEPT !.test = @ + 1]
    /\ UNCHANGED <<dm_pool_size, dm_pool, dm_held, dm_closed, dm_last,
                   dm_waiting, nonPoolVars>>

\* The loop test (line 130), connection_pool.empty(): on an empty queue
\* close_all returns.
close_all_test ==
    /\ dm_closer.test > 0
    /\ IF dm_pool = <<>>
         THEN /\ dm_closer' = [dm_closer EXCEPT !.test = @ - 1]
              /\ dm_last' = CallEnded("close_all", FALSE)
         ELSE /\ dm_closer' = [dm_closer EXCEPT !.test = @ - 1,
                                                !.get = @ + 1]
              /\ UNCHANGED dm_last
    /\ UNCHANGED <<dm_pool_size, dm_pool, dm_held, dm_closed, dm_calls,
                   dm_waiting, nonPoolVars>>

\* conn = connection_pool.get_nowait() (line 131) after a test that found
\* the queue not empty: it takes the oldest queued connection, or raises
\* queue.Empty when other callers have taken every connection since the
\* test, which close_all raises as DatabaseConnectionError (lines 134-137).
close_all_get ==
    /\ dm_closer.get > 0
    /\ IF dm_pool = <<>>
         THEN /\ dm_closer' = [dm_closer EXCEPT !.get = @ - 1]
              /\ dm_last' = CallEnded("close_all", TRUE)
              /\ UNCHANGED dm_pool
         ELSE /\ dm_closer' = [dm_closer EXCEPT !.get = @ - 1,
                                                !.close = @ \cup {Head(dm_pool)}]
              /\ dm_pool' = Tail(dm_pool)
              /\ UNCHANGED dm_last
    /\ UNCHANGED <<dm_pool_size, dm_held, dm_closed, dm_calls, dm_waiting,
                   nonPoolVars>>

\* conn.close() (line 132) on a connection taken off the queue: it closes
\* the connection and the loop goes on with its test, or it fails and
\* close_all raises DatabaseConnectionError (lines 134-137), the connection
\* being neither queued nor closed.  The connections callers hold are not
\* touched.
close_all_close ==
    /\ \E c \in dm_closer.close :
          \/ /\ dm_closed' = dm_closed \cup {c}
             /\ dm_closer' = [dm_closer EXCEPT !.close = @ \ {c},
                                               !.test = @ + 1]
             /\ UNCHANGED dm_last
          \/ /\ dm_closer' = [dm_closer EXCEPT !.close = @ \ {c}]
             /\ dm_last' = CallEnded("close_all", TRUE)
             /\ UNCHANGED dm_closed
    /\ UNCHANGED <<dm_pool_size, dm_pool, dm_held, dm_calls, dm_waiting,
                   nonPoolVars>>

NextPool ==
    \/ get_connection \/ get_connection_wakes \/ get_connection_times_out
    \/ return_connection
    \/ close_all \/ close_all_test \/ close_all_get \/ close_all_close

SpecPool == InitPool /\ [][NextPool]_vars

\* C26: a DatabaseManager starts with exactly pool_size connections on its
\* queue and never creates more: while callers return each connection they
\* obtained at most once, the connections handed out are never more than
\* pool_size and every connection is one of the pool_size created at
\* construction; a get_connection that ends on an empty queue (all
\* pool_size handed out, or close_all emptied it, and nothing returned
\* before its timeout) raises DatabaseConnectionError, and one that ends
\* on a queue holding a connection takes it.
C26_PoolNeverGrows ==
    /\ dm_calls = 0 => Len(dm_pool) = dm_pool_size
    /\ Cardinality(dm_held) <= dm_pool_size
    /\ dm_held \cup dm_closed \cup dm_closer.close
            \cup {dm_pool[i] : i \in 1..Len(dm_pool)}
          \subseteq 1..dm_pool_size
    /\ Len(dm_pool) + Cardinality(dm_held) + Cardinality(dm_closed)
            + Cardinality(dm_closer.close) <= dm_pool_size
    /\ (dm_last.op = "get_connection"
           /\ (dm_last.handed_out = dm_pool_size \/ dm_last.available = 0))
          => dm_last.raised
    /\ (dm_last.op = "get_connection" /\ dm_last.available > 0)
          => ~dm_last.raised

C26_Witness ==
    /\ dm_pool_size = 2
    /\ Cardinality(dm_held) = 2
    /\ dm_last.op = "get_connection" /\ dm_last.raised
    /\ dm_calls >= 5

(***************************************************************************)
(* The observation batches of insert_storms                                *)
(***************************************************************************)

\* the executemany calls issued for storm k, in order
BatchesOf(k) == SelectSeq(ld_batches, LAMBDA e : e.storm = k)

\* the rows of a sequence of batches, one after the other
RECURSIVE RowsOfBatches(_)
RowsOfBatches(bs) ==
    IF bs = <<>> THEN <<>> ELSE Head(bs).rows \o RowsOfBatches(Tail(bs))

\* ceil(n / b) for b >= 1
CeilDiv(n, b) == (n + b - 1) \div b

\* C27: with a batch size b >= 1, the batches issued for a storm with n
\* observations are consecutive slices of its observation list (the j-th
\* starts at (j - 1) * b), each of b observations except possibly the last,
\* issued after the storm's own row was inserted and carrying that row's
\* generated id; once insert_storms has returned there were ceil(n / b) of
\* them per storm, together they are the observation list, and the store
\* holds one row per observation whatever b is.  A batch size <= 0 is
\* refused with ValueError before any statement is executed.
C27_BatchesAreConsecutiveSlices ==
    /\ \A k \in 1..Len(ld_storms) :
          \A j \in 1..Len(BatchesOf(k)) :
             /\ ld_batch_size >= 1
             /\ BatchesOf(k)[j].off = (j - 1) * ld_batch_size
             /\ BatchesOf(k)[j].off < Len(ld_storms[k].observations)
             /\ BatchesOf(k)[j].rows =
                   SubSeq(ld_storms[k].observations,
                          BatchesOf(k)[j].off + 1,
                          IF j * ld_batch_size < Len(ld_storms[k].observations)
                            THEN j * ld_batch_size
                            ELSE Len(ld_storms[k].observations))
             /\ BatchesOf(k)[j].storm_id >= 1
             /\ BatchesOf(k)[j].storm_id = BatchesOf(k)[j].last_storm_row
    /\ ld_pc = "returned" =>
          /\ \A k \in 1..Len(ld_storms) :
                /\ Len(BatchesOf(k))
                      = CeilDiv(Len(ld_storms[k].observations), ld_batch_size)
                /\ RowsOfBatches(BatchesOf(k)) = ld_storms[k].observations
                /\ \A j \in 1..Len(BatchesOf(k)) :
                      BatchesOf(k)[j].storm_id = committed.storms[k].id
                /\ \A m \in 1..Len(ld_storms[k].observations) :
                      WithoutId(ObservationsOf(committed,
                                               committed.storms[k].id)[m])
                          = RowOf(ld_storms[k].observations[m],
                                  committed.storms[k].id)
          /\ Len(committed.observations) = TotalObservations(1..Len(ld_storms))
    /\ (ld_batch_size <= 0 /\ ld_pc \notin {"construct", "called"}) =>
          /\ ld_pc = "raised"
          /\ ld_error.class = "ValueError"
          /\ ld_batches = <<>>
          /\ store = EmptyStore /\ committed = EmptyStore /\ ~in_txn

\* HARVEY's three observations went in as a batch of 2 and a batch of 1
C27_Witness ==
    /\ ld_pc = "returned"
    /\ ld_api = "Load" /\ ld_batch_size = 2
    /\ \E k \in 1..Len(ld_storms) :
          /\ Len(ld_storms[k].observations) = 3
          /\ Len(BatchesOf(k)) = 2
          /\ Len(BatchesOf(k)[2].rows) = 1

(***************************************************************************)
(* The life of a stage's progress bar                                      *)
(***************************************************************************)

\* C25 (as claimed), for Transform.process with progress enabled: the bar is
\* created once with the number of storms as its total (a total of 0
\* included), advanced once per storm yielded and never beyond the total,
\* and closed exactly once when processing ends, normally or with an error,
\* after which the stage holds no bar.
C25_BarCreatedAdvancedClosedOnce ==
    (tr_progress_enabled /\ tr_pc \in {"loop", "returned", "raised"}) =>
        /\ tr_bar.created = 1
        /\ tr_bar.total = Len(tr_data)
        /\ tr_bar.n = Len(tr_yielded)
        /\ tr_bar.n <= tr_bar.total
        /\ tr_pc = "loop" => (tr_bar.closed = 0 /\ tr_bar.held)
        /\ tr_pc \in {"returned", "raised"} =>
              (tr_bar.closed = 1 /\ ~tr_bar.held)

(***************************************************************************)
(* One run of the pipeline (main.py run_etl lines 89-106, core.py          *)
(* ETLPipeline.run lines 116-132): Extract.process, Transform.process and  *)
(* Load.process are chained as generators, so nothing runs until           *)
(* Load.process calls list(data); that drives Transform.process, whose     *)
(* list(data) drives Extract.process to its end.  The run is then repeated *)
(* on the same inputs with the progress flag of the three stages flipped.  *)
(***************************************************************************)

\* the line O_A with the status XX: an observation the parser accepts and a
\* trigger of the store rejects
O_XX == [O_A EXCEPT ![17] = "X", ![18] = "X"]

\* the input files of the runs
PipelineFiles ==
    { <<>>,
      <<BLANK>>,
      <<H_ZERO>>,
      <<H_ONE, O_A>>,
      <<H_ONE, O_B>>,
      <<H_ONE, O_BAD>>,
      <<H_BASIN, O_A>>,
      <<H_TWO, O_A, O_B>>,
      <<H_TWO, O_A, O_XX>>,
      <<H_ONE, O_A, H_ZERO>>,
      <<H_ONE, O_A, H_TWO, O_B>>,
      <<H_ONE, O_A, H_TWO, O_A, O_B>> }

\* how the storage answers the statements of init_database
PipelineFaults == { <<>>, <<"other">>, <<"ok", "ok", "io">> }

\* What the environment holds for a run: whether a database is at the target
\* path, the storage's answers, whether os.remove is refused, whether
\* closing a connection fails and whether a query of validate_database
\* fails.
PipelineEnvironments ==
    [prior : BOOLEAN, faults : PipelineFaults, remove_fails : BOOLEAN,
     close_fails : BOOLEAN, validate_fails : BOOLEAN]

\* the file system at the target path before a run
InitialPath(env) == IF env.prior THEN 1 ELSE 0
InitialInodes(env) == IF env.prior THEN <<PriorDatabase>> ELSE <<>>

\* The stages as run_etl constructs them, about to be run; the three stages
\* get the same progress flag (main.py lines 91-102).
PipelineReady(progress_enabled, env) ==
    /\ pc = "read_header" /\ line_num = 0 /\ fpos = 0
    /\ header = NoHeader /\ observations = <<>> /\ yielded = <<>>
    /\ error = NoError /\ hdr_line = 0 /\ yield_log = <<>>
    /\ ex_progress_enabled = progress_enabled
    /\ ex_bar = NoBar /\ ex_pc = "called" /\ ex_seen = 0
    /\ tr_data = <<>> /\ tr_progress_enabled = progress_enabled
    /\ tr_pc = "idle" /\ tr_storms = <<>> /\ tr_i = 0 /\ tr_yielded = <<>>
    /\ tr_log = <<>> /\ tr_error = "none" /\ tr_bar = NoBar
    /\ store = EmptyStore /\ committed = EmptyStore /\ in_txn = FALSE
    /\ ld_api = "Load" /\ ld_storms = <<>>
    /\ ld_pc = "idle" /\ ld_i = 0 /\ ld_off = 0 /\ ld_storm_id = 0
    /\ ld_error = NoException /\ ld_batches = <<>>
    /\ ld_progress_enabled = progress_enabled /\ ld_bar = NoBar
    /\ fs_path = InitialPath(env) /\ inodes = InitialInodes(env)
    /\ pool = <<>> /\ conn = 0 /\ faults = env.faults
    /\ sm_api = "Load" /\ sm_lent = <<>> /\ sm_pc = "idle" /\ sm_attempts = 0
    /\ sm_error = NoFault /\ sm_runs = 0 /\ sm_stmt = 0
    /\ sm_main = EmptyDatabase
    /\ lp_pc = "called" /\ lp_error = "none"
    /\ fn = "none" /\ arg = <<>> /\ ret = <<>>

InitPipeline ==
    /\ PoolIdle
    /\ \/ exists = TRUE /\ file \in PipelineFiles
       \/ exists = FALSE /\ file = <<>>
    /\ tr_fail_at \in 0..1
    /\ ld_batch_size \in 1..MaxBatchSize
    /\ pl_env \in PipelineEnvironments
    /\ \E progress_enabled \in BOOLEAN : PipelineReady(progress_enabled, pl_env)
    /\ pl_run = 1 /\ pl_first = <<>>

\* Variant in which the line count of the progress bar is taken from the
\* handle the parser reads: with progress enabled the parser starts at the end
\* of the file.
ExtractBeginCountConsumesFile ==
    /\ ex_pc = "called"
    /\ IF ~exists
         THEN /\ ex_pc' = "raised"
              /\ UNCHANGED <<ex_bar, fpos>>
         ELSE /\ ex_bar' = init_progress(ex_bar, ex_progress_enabled, Len(file))
              /\ fpos' = IF ex_progress_enabled THEN Len(file) ELSE fpos
              /\ ex_pc' = "iterating"
    /\ UNCHANGED <<ex_progress_enabled, ex_seen, lp_pc, lp_error, pl_env,
                   pl_run, pl_first, file, exists, pc, line_num, header,
                   observations, yielded, error, hdr_line, yield_log,
                   callVars, loadVars, schemaVars, transformVars, poolVars>>

\* Extract.process up to its for loop (extract.py lines 59-64):
\* validate_file raises ExtractionError when the path names no file; the
\* lines are counted through a handle of their own, whatever the progress
\* flag; init_progress gets the count.
ExtractBegin ==
    /\ ex_pc = "called"
    /\ IF ~exists
         THEN /\ ex_pc' = "raised"
              /\ UNCHANGED ex_bar
         ELSE /\ ex_bar' = init_progress(ex_bar, ex_progress_enabled, Len(file))
              /\ ex_pc' = "iterating"
    /\ UNCHANGED <<ex_progress_enabled, ex_seen, lp_pc, lp_error, pl_env,
                   pl_run, pl_first, nonPipelineVars>>

\* for storm in parse_hurdat2(...) (line 67): the parser runs to its next
\* yield, to its end or to its exception
ExtractParse ==
    /\ ex_pc = "iterating"
    /\ ex_seen = Len(yielded)
    /\ pc \notin {"done", "failed"}
    /\ NextExtract

\* Lines 68-73: update_progress() for the header and for each observation of
\* the Storm the parser yielded, then the Storm is passed on.
ExtractYield ==
    /\ ex_pc = "iterating"
    /\ ex_seen < Len(yielded)
    /\ ex_bar' = update_progress(ex_bar,
                     1 + Len(yielded[ex_seen + 1].observations))
    /\ ex_seen' = ex_seen + 1
    /\ UNCHANGED <<ex_progress_enabled, ex_pc, lp_pc, lp_error, pl_env,
                   pl_run, pl_first, nonPipelineVars>>

\* Lines 75-80: the parser is exhausted or has raised; close_progress, and
\* an exception leaves as ExtractionError.
ExtractEnd ==
    /\ ex_pc = "iterating"
    /\ ex_seen = Len(yielded)
    /\ pc \in {"done", "failed"}
    /\ ex_bar' = close_progress(ex_bar)
    /\ ex_pc' = IF pc = "done" THEN "returned" ELSE "raised"
    /\ UNCHANGED <<ex_progress_enabled, ex_seen, lp_pc, lp_error, pl_env,
                   pl_run, pl_first, nonPipelineVars>>

\* the Storms Extract.process yielded
Extracted == SubSeq(yielded, 1, ex_seen)

\* Transform.process, storms = list(data) (transform.py lines 85-87 and
\* 112-114): the upstream generator has been run to its end; its exception
\* is wrapped in TransformError by the outer handler, before init_progress.
TransformListData ==
    /\ tr_pc = "idle"
    /\ lp_pc = "called"
    /\ ex_pc \in {"returned", "raised"}
    /\ IF ex_pc = "raised"
         THEN /\ tr_pc' = "raised"
              /\ tr_error' = "TransformError"
              /\ UNCHANGED tr_data
         ELSE /\ tr_data' = Extracted
              /\ tr_pc' = "called"
              /\ UNCHANGED tr_error
    /\ UNCHANGED <<tr_progress_enabled, tr_fail_at, tr_storms, tr_i,
                   tr_yielded, tr_log, tr_bar, nonTransformVars>>

\* Variant without the check for an empty list: init_database runs whenever
\* the upstream iterator ended without an exception.
ProcessListWithoutEmptyCheck ==
    /\ lp_pc = "called"
    /\ tr_pc \in {"returned", "raised"}
    /\ IF tr_pc = "raised"
         THEN /\ lp_pc' = "raised"
              /\ lp_error' = tr_error
              /\ UNCHANGED sm_pc
         ELSE /\ lp_pc' = "init_database"
              /\ sm_pc' = "remove"
              /\ UNCHANGED lp_error
    /\ UNCHANGED <<ex_progress_enabled, ex_bar, ex_pc, ex_seen, pl_env,
                   pl_run, pl_first, fs_path, inodes, pool, conn, faults,
                   sm_api, sm_lent, sm_attempts, sm_error, sm_runs, sm_stmt, sm_main,
                   extractVars,
                   callVars, loadVars, transformVars, poolVars>>

\* Load.process lines 463-469: storms = list(data) runs the upstream
\* generator to its end, and its exception leaves Load.process as it is; an
\* empty list raises ValueError; otherwise init_database is entered.
ProcessList ==
    /\ lp_pc = "called"
    /\ tr_pc \in {"returned", "raised"}
    /\ IF tr_pc = "raised"
         THEN /\ lp_pc' = "raised"
              /\ lp_error' = tr_error
              /\ UNCHANGED sm_pc
       ELSE IF tr_yielded = <<>>
         THEN /\ lp_pc' = "raised"
              /\ lp_error' = "ValueError"
              /\ UNCHANGED sm_pc
         ELSE /\ lp_pc' = "init_database"
              /\ sm_pc' = "remove"
              /\ UNCHANGED lp_error
    /\ UNCHANGED <<ex_progress_enabled, ex_bar, ex_pc, ex_seen, pl_env,
                   pl_run, pl_first, fs_path, inodes, pool, conn, faults,
                   sm_api, sm_lent, sm_attempts, sm_error, sm_runs, sm_stmt, sm_main,
                   extractVars,
                   callVars, loadVars, transformVars, poolVars>>

\* os.remove of init_database, refused or not as the environment has it
ProcessRemoveExisting ==
    /\ lp_pc = "init_database"
    /\ RemoveExisting
    /\ (sm_pc' = "raised") <=> (pl_env.remove_fails /\ fs_path # 0)

\* conn.close() in the close_all of init_database, failing or not as the
\* environment has it
ProcessCloseAllClose ==
    /\ lp_pc = "init_database"
    /\ CloseAllClose
    /\ (sm_pc' = "raised") <=> pl_env.close_fails

\* Load.process lines 469-472: init_database has returned and insert_storms
\* is called with the list, or its exception leaves Load.process (the
\* handler of line 523 logs and re-raises).
ProcessInsert ==
    /\ lp_pc = "init_database"
    /\ sm_pc \in {"returned", "raised"}
    /\ IF sm_pc = "raised"
         THEN /\ lp_pc' = "raised"
              /\ lp_error' = sm_error.class
              /\ UNCHANGED <<ld_storms, ld_pc>>
         ELSE /\ lp_pc' = "insert_storms"
              /\ ld_storms' = tr_yielded
              /\ ld_pc' = "called"
              /\ UNCHANGED lp_error
    /\ UNCHANGED <<ex_progress_enabled, ex_bar, ex_pc, ex_seen, pl_env,
                   pl_run, pl_first, store, committed, in_txn, ld_api,
                   ld_batch_size, ld_i, ld_off, ld_storm_id, ld_error,
                   ld_batches, ld_progress_enabled, ld_bar, extractVars,
                   callVars, schemaVars, transformVars, poolVars>>

\* Load.process lines 472-475: insert_storms has returned and
\* validate_database is called, or its exception leaves Load.process.
ProcessValidate ==
    /\ lp_pc = "insert_storms"
    /\ ld_pc \in {"returned", "raised"}
    /\ IF ld_pc = "raised"
         THEN /\ lp_pc' = "raised"
              /\ lp_error' = ld_error.class
         ELSE /\ lp_pc' = "validate_database"
              /\ UNCHANGED lp_error
    /\ UNCHANGED <<ex_progress_enabled, ex_bar, ex_pc, ex_seen, pl_env,
                   pl_run, pl_first, nonPipelineVars>>

\* validate_database, failing or not as the environment has it
ProcessValidateDatabase ==
    /\ lp_pc = "validate_database"
    /\ ValidateDatabase
    /\ (fn' = "validate_database raised") <=> pl_env.validate_fails

\* the category of the intensity analysis (load.py lines 365-370)
IntensityCategory(max_wind) ==
    IF max_wind <= 33 THEN "TD"
    ELSE IF max_wind <= 63 THEN "TS"
    ELSE IF max_wind <= 95 THEN "Cat1-2"
    ELSE "Cat3+"

\* the observations rows of the intensity analysis: max_wind NOT IN (-999,
\* -99) is not true of a NULL max_wind
IntensityRows(st) ==
    { j \in 1..Len(st.observations) :
        /\ st.observations[j].numeric[1] # None
        /\ st.observations[j].numeric[1][1] \notin MISSING_VALUES }

\* The report of Load.process (lines 478-519) formats avg_pressure of every
\* category with :.1f and takes abs(min_lon): AVG(min_pressure) is NULL for
\* a category whose rows all have a NULL min_pressure, and MIN(norm_lon) is
\* NULL when the table has no row; either raises TypeError.
ReportRaises(st) ==
    \/ Len(st.observations) = 0
    \/ \E j \in IntensityRows(st) :
          \A k \in IntensityRows(st) :
             IntensityCategory(st.observations[k].numeric[1][1])
                 = IntensityCategory(st.observations[j].numeric[1][1])
               => st.observations[k].numeric[2] = None

\* Load.process lines 475-525: validate_database has returned and the report
\* is logged, or an exception leaves Load.process as it is.
ProcessReturn ==
    /\ lp_pc = "validate_database"
    /\ fn # "none"
    /\ IF fn = "validate_database raised"
         THEN /\ lp_pc' = "raised"
              /\ lp_error' = ret.class
       ELSE IF ReportRaises(committed)
         THEN /\ lp_pc' = "raised"
              /\ lp_error' = "TypeError"
         ELSE /\ lp_pc' = "returned"
              /\ UNCHANGED lp_error
    /\ UNCHANGED <<ex_progress_enabled, ex_bar, ex_pc, ex_seen, pl_env,
                   pl_run, pl_first, nonPipelineVars>>

\* what a run produced: per stage the output sequence and the error
\* outcome, and the store at the target path
Outcome ==
    [extract |-> [output |-> Extracted, pc |-> ex_pc, error |-> error],
     transform |-> [output |-> tr_yielded, pc |-> tr_pc, error |-> tr_error,
                    log |-> tr_log],
     load |-> [pc |-> lp_pc, error |-> lp_error, cause |-> ld_error,
               schema_error |-> sm_error],
     store |-> [fs_path |-> fs_path, inodes |-> inodes,
                committed |-> committed]]

\* The run is over.  It is repeated on the same file, with the same batch
\* size, in the same environment, the progress flag flipped.
RunAgain ==
    /\ pl_run = 1
    /\ lp_pc \in {"returned", "raised"}
    /\ pl_run' = 2
    /\ pl_first' = Outcome
    /\ pc' = "read_header" /\ line_num' = 0 /\ fpos' = 0
    /\ header' = NoHeader /\ observations' = <<>> /\ yielded' = <<>>
    /\ error' = NoError /\ hdr_line' = 0 /\ yield_log' = <<>>
    /\ ex_progress_enabled' = ~ex_progress_enabled
    /\ ex_bar' = NoBar /\ ex_pc' = "called" /\ ex_seen' = 0
    /\ tr_data' = <<>> /\ tr_progress_enabled' = ~tr_progress_enabled
    /\ tr_pc' = "idle" /\ tr_storms' = <<>> /\ tr_i' = 0 /\ tr_yielded' = <<>>
    /\ tr_log' = <<>> /\ tr_error' = "none" /\ tr_bar' = NoBar
    /\ store' = EmptyStore /\ committed' = EmptyStore /\ in_txn' = FALSE
    /\ ld_storms' = <<>>
    /\ ld_pc' = "idle" /\ ld_i' = 0 /\ ld_off' = 0 /\ ld_storm_id' = 0
    /\ ld_error' = NoException /\ ld_batches' = <<>>
    /\ ld_progress_enabled' = ~ld_progress_enabled /\ ld_bar' = NoBar
    /\ fs_path' = InitialPath(pl_env) /\ inodes' = InitialInodes(pl_env)
    /\ pool' = <<>> /\ conn' = 0 /\ faults' = pl_env.faults
    /\ sm_pc' = "idle" /\ sm_attempts' = 0
    /\ sm_error' = NoFault /\ sm_runs' = 0 /\ sm_stmt' = 0
    /\ sm_main' = EmptyDatabase
    /\ lp_pc' = "called" /\ lp_error' = "none"
    /\ fn' = "none" /\ arg' = <<>> /\ ret' = <<>>
    /\ UNCHANGED <<file, exists, tr_fail_at, ld_api, ld_batch_size, sm_api, sm_lent,
                   pl_env, poolVars>>

NextPipeline ==
    \/ ExtractBegin \/ ExtractParse \/ ExtractYield \/ ExtractEnd
    \/ TransformListData \/ TransformBegin \/ TransformStorm
    \/ TransformReturn
    \/ ProcessList \/ ProcessRemoveExisting \/ LoadOpen
    \/ InitSpatialMetadata \/ CreateBaseTables \/ AddSpatialSupport
    \/ CreateValidationTriggers \/ CreateIndices
    \/ ReturnConnection \/ CloseAll \/ CloseAllGet
    \/ ProcessCloseAllClose
    \/ InitializeReturn \/ InitializeRaise
    \/ ProcessInsert \/ InsertStormsBegin \/ InsertStorm
    \/ ProcessObservations \/ InsertStormsReturn
    \/ ProcessValidate \/ ProcessValidateDatabase \/ ProcessReturn
    \/ RunAgain

SpecPipeline == InitPipeline /\ [][NextPipeline]_vars

\* whether the run has changed anything at the target path
DatabaseTouched ==
    \/ fs_path # InitialPath(pl_env)
    \/ inodes # InitialInodes(pl_env)
    \/ store # EmptyStore
    \/ committed # EmptyStore
    \/ sm_pc # "idle"

\* C29: Load.process removes and re-initialises the database at the target
\* path only after its upstream iterator has been consumed to the end
\* without error and has yielded at least one storm: when extraction or
\* transformation has failed, or no storm arrived, a database that was at
\* the path is still there, unchanged.
C29_DatabaseTouchedOnlyAfterUpstream ==
    /\ DatabaseTouched =>
          /\ ex_pc = "returned"
          /\ tr_pc = "returned"
          /\ Len(tr_yielded) >= 1
          /\ tr_yielded = ld_storms \/ ld_storms = <<>>
    /\ (/\ lp_pc = "raised"
        /\ pl_env.prior
        /\ ex_pc = "raised" \/ tr_pc = "raised" \/ tr_yielded = <<>>) =>
          /\ fs_path = 1
          /\ inodes = <<PriorDatabase>>

\* extraction failed after the first Storm had been yielded, Load.process
\* raised, and the database that was at the path is as it was
C29_Witness ==
    /\ pl_env.prior
    /\ ex_pc = "raised" /\ ex_seen = 1
    /\ lp_pc = "raised"
    /\ fs_path = 1 /\ inodes = <<PriorDatabase>>

\* C23: progress reporting does not influence results.  A run with progress
\* disabled and a run with progress enabled and a working bar, on the same
\* input, give the same output sequence of each stage, the same store and
\* the same error outcome; and with progress disabled no stage ever creates
\* a bar.
C23_ProgressDoesNotChangeResults ==
    /\ (pl_run = 2 /\ lp_pc \in {"returned", "raised"} /\ tr_fail_at = 0) =>
          Outcome = pl_first
    /\ (pl_run \in {1, 2} /\ ~ex_progress_enabled) =>
          /\ ex_bar.created = 0
          /\ tr_bar.created = 0
          /\ ld_bar.created = 0

\* the second run, without progress, has loaded two storms and returned as
\* the first run, with progress, did
C23_Witness ==
    /\ pl_run = 2 /\ lp_pc = "returned"
    /\ ~ex_progress_enabled
    /\ tr_fail_at = 0
    /\ Len(committed.storms) = 2 /\ Len(committed.observations) = 1
    /\ Outcome = pl_first

=============================================================================
